---------------------------- MODULE Spec2Model ----------------------------
(***************************************************************************)
(* The ledger engine of rfielding/bc (package currency): DbTest over the   *)
(* Stored index.  A state is the content of Stored (Accounts, Receipts,    *)
(* NextReceipts, HighestReceiptHashPointers, Genesis, This) and of         *)
(* DbTest.IsBank; every exported method is one atomic action.              *)
(***************************************************************************)
EXTENDS Integers, Sequences, FiniteSets, TLC

\* ------------------------------------------------------------------ bounds
\* number of key pairs that take part
NumKeys == 2
\* width in bits of Amount in the model (int64 in the source, scaled down)
IntBits == 3
\* largest signoff nonce a submitted transaction carries
MaxNonce == 1
\* largest number of receipts stored besides Genesis
MaxReceipts == 3
\* largest length of HighestReceiptHashPointers before pushes stop
MaxHighest == 2

\* ------------------------------------------------------- fixed-width ints
Modulus == 2 ^ IntBits
MinInt == 0 - (2 ^ (IntBits - 1))
MaxInt == (2 ^ (IntBits - 1)) - 1
Half == 2 ^ (IntBits - 2)

\* two's complement wrap-around of Go's int64 arithmetic
Wrap(x) ==
    ((x - MinInt) % Modulus) + MinInt

\* ------------------------------------------------------------------ types
Keys == 1 .. NumKeys
\* the zero value of PublicKey (X and Y nil)
NullKey == 0
\* a nil *Signature
NoSignature == << >>
\* the empty HashPointer ""
NoHash == << >>

NewPublicKeyString(k) ==
    <<"pks", k>>

Flow(a, k) ==
    [Amount |-> a, PublicKey |-> k]

Signoff(n, s) ==
    [Nonce |-> n, Signature |-> s]

ZeroAccount ==
    [PublicKey |-> NullKey, Amount |-> 0, Nonce |-> 0]

ZeroTransaction ==
    [Flows |-> << >>, Signoffs |-> << >>]

ZeroHashed ==
    [Transaction |-> ZeroTransaction, ChainLength |-> 0, Previous |-> NoHash]

ZeroReceipt ==
    [Hashed |-> ZeroHashed, This |-> NoHash]

\* Account.IsEmpty and Receipt.IsEmpty: the value a map lookup gives on a miss
AccountIsEmpty(a) ==
    a.PublicKey = NullKey

ReceiptIsEmpty(r) ==
    r.This = NoHash

\* ----------------------------------------------------------------- crypto
\* a digest that also covers the signatures the other signoffs carry
flowHashChained(t, i) ==
    <<t.Flows, t.Signoffs[i].Nonce,
      [m \in 1 .. Len(t.Signoffs) |->
           IF m = i THEN NoSignature ELSE t.Signoffs[m].Signature]>>

\* SHA256(serialize(Flows) || ascii(Signoffs[i].Nonce)), collision free
flowHash(t, i) ==
    <<t.Flows, t.Signoffs[i].Nonce>>

\* ecdsa.Sign with the private key of k over digest h
ecdsaSign(k, h) ==
    <<k, h>>

\* ecdsa.Verify for public key k, digest h and signature sig
ecdsaVerify(k, h, sig) ==
    sig = <<k, h>>

\* Transaction.Sign(k, i)
Sign(k, t, i) ==
    [t EXCEPT !.Signoffs[i].Signature = ecdsaSign(k, flowHash(t, i))]

\* Receipt.HashPointer: hex(SHA256(json(r.Hashed))), collision free; Next is
\* not part of it
HashPointer(r) ==
    <<r.Hashed.Transaction, r.Hashed.ChainLength, r.Hashed.Previous>>

RECURSIVE VerifyFrom(_, _)
\* the loop of Transaction.Verify from index i on: "true", "false", or
\* "panic" when a flow that is not positive has a nil Signature
VerifyFrom(t, i) ==
    IF i > Len(t.Signoffs) THEN "true"
    ELSE IF t.Flows[i].Amount > 0 THEN VerifyFrom(t, i + 1)
    ELSE IF t.Signoffs[i].Signature = NoSignature THEN "panic"
    ELSE IF ~ecdsaVerify(t.Flows[i].PublicKey, flowHash(t, i), t.Signoffs[i].Signature)
         THEN "false"
    ELSE VerifyFrom(t, i + 1)

Verify(t) ==
    IF Len(t.Signoffs) # Len(t.Flows) THEN "false" ELSE VerifyFrom(t, 1)

\* ---------------------------------------------------------------- storage
\* A database value db is the record of the fields of Stored and of DbTest:
\* [Accounts, Receipts, NextReceipts, HighestReceiptHashPointers, Genesis,
\*  This, IsBank].  A Go map is a function; a lookup that misses gives the
\* zero value.

FindAccountByPublicKeyString(db, pks) ==
    IF pks \in DOMAIN db.Accounts THEN db.Accounts[pks] ELSE ZeroAccount

InsertAccount(db, acct) ==
    [db EXCEPT !.Accounts = (NewPublicKeyString(acct.PublicKey) :> acct) @@ db.Accounts]

FindReceiptByHashPointer(db, h) ==
    IF h \in DOMAIN db.Receipts THEN db.Receipts[h] ELSE ZeroReceipt

FindNextReceipts(db, h) ==
    IF h \in DOMAIN db.NextReceipts THEN db.NextReceipts[h] ELSE << >>

SetThis(db, r) ==
    [db EXCEPT !.This = r]

SeqContains(q, x) ==
    \E i \in 1 .. Len(q) : q[i] = x

RECURSIVE HighestChainLength(_, _, _)
\* the loop of InsertReceipt that finds the largest ChainLength listed,
\* starting from hi
HighestChainLength(db, i, hi) ==
    IF i > Len(db.HighestReceiptHashPointers) THEN hi
    ELSE LET r == FindReceiptByHashPointer(db, db.HighestReceiptHashPointers[i])
         IN  HighestChainLength(db, i + 1,
                 IF hi < r.Hashed.ChainLength THEN r.Hashed.ChainLength ELSE hi)

\* InsertReceipt that lists a receipt only when it is higher than all listed
InsertReceiptNoTie(db, rcpt) ==
    LET p == rcpt.Hashed.Previous
        nx == FindNextReceipts(db, p)
        d1 == IF SeqContains(nx, rcpt.This) THEN db
              ELSE [db EXCEPT !.NextReceipts = (p :> Append(nx, rcpt.This)) @@ db.NextReceipts]
        d2 == [d1 EXCEPT !.Receipts = (rcpt.This :> rcpt) @@ d1.Receipts]
        hi == HighestChainLength(d2, 1, 0 - 1)
    IN  IF hi < rcpt.Hashed.ChainLength
        THEN [d2 EXCEPT !.HighestReceiptHashPointers = <<rcpt.This>>]
        ELSE d2

\* InsertReceipt that keeps only the newest receipt of each fork
InsertReceiptOnlyChild(db, rcpt) ==
    LET p == rcpt.Hashed.Previous
        nx == FindNextReceipts(db, p)
        old == { h \in DOMAIN db.Receipts : SeqContains(nx, h) /\ h # rcpt.This }
        d1 == [db EXCEPT !.NextReceipts = (p :> <<rcpt.This>>) @@ db.NextReceipts]
        d2 == [d1 EXCEPT !.Receipts =
                  (rcpt.This :> rcpt) @@ [h \in DOMAIN d1.Receipts \ old |-> d1.Receipts[h]]]
        hi == HighestChainLength(d2, 1, 0 - 1)
        d3 == IF hi = rcpt.Hashed.ChainLength
              THEN [d2 EXCEPT !.HighestReceiptHashPointers = Append(@, rcpt.This)]
              ELSE d2
    IN  IF hi < rcpt.Hashed.ChainLength
        THEN [d3 EXCEPT !.HighestReceiptHashPointers = <<rcpt.This>>]
        ELSE d3

InsertReceipt(db, rcpt) ==
    LET p == rcpt.Hashed.Previous
        nx == FindNextReceipts(db, p)
        d1 == IF SeqContains(nx, rcpt.This) THEN db
              ELSE [db EXCEPT !.NextReceipts = (p :> Append(nx, rcpt.This)) @@ db.NextReceipts]
        d2 == [d1 EXCEPT !.Receipts = (rcpt.This :> rcpt) @@ d1.Receipts]
        hi == HighestChainLength(d2, 1, 0 - 1)
        d3 == IF hi = rcpt.Hashed.ChainLength
              THEN [d2 EXCEPT !.HighestReceiptHashPointers = Append(@, rcpt.This)]
              ELSE d2
    IN  IF hi < rcpt.Hashed.ChainLength
        THEN [d3 EXCEPT !.HighestReceiptHashPointers = <<rcpt.This>>]
        ELSE d3

\* ------------------------------------------------------------- validation
RECURSIVE FlowTotal(_, _, _)
\* total -= txn.Flows[i].Amount for every flow, in int64
FlowTotal(flows, i, total) ==
    IF i > Len(flows) THEN total
    ELSE FlowTotal(flows, i + 1, Wrap(total - flows[i].Amount))

RECURSIVE CheckFlowsNoReplay(_, _, _, _)
\* CheckFlows without the test that returns Replay
CheckFlowsNoReplay(db, txn, isBeforeApply, i) ==
    IF i > Len(txn.Flows) THEN "nil"
    ELSE IF txn.Flows[i].Amount > 0 THEN CheckFlowsNoReplay(db, txn, isBeforeApply, i + 1)
    ELSE LET nonceDiff == IF isBeforeApply THEN 0 ELSE 1
             pks == NewPublicKeyString(txn.Flows[i].PublicKey)
             a == FindAccountByPublicKeyString(db, pks)
         IN  IF Wrap(a.Amount + txn.Flows[i].Amount) < 0 /\ pks \notin db.IsBank
                 THEN "belowzero"
             ELSE IF a.Nonce < txn.Signoffs[i].Nonce + nonceDiff THEN "wait"
             ELSE CheckFlowsNoReplay(db, txn, isBeforeApply, i + 1)

RECURSIVE CheckFlowsNoWait(_, _, _, _)
\* CheckFlows without the test that returns Wait
CheckFlowsNoWait(db, txn, isBeforeApply, i) ==
    IF i > Len(txn.Flows) THEN "nil"
    ELSE IF txn.Flows[i].Amount > 0 THEN CheckFlowsNoWait(db, txn, isBeforeApply, i + 1)
    ELSE LET nonceDiff == IF isBeforeApply THEN 0 ELSE 1
             pks == NewPublicKeyString(txn.Flows[i].PublicKey)
             a == FindAccountByPublicKeyString(db, pks)
         IN  IF Wrap(a.Amount + txn.Flows[i].Amount) < 0 /\ pks \notin db.IsBank
                 THEN "belowzero"
             ELSE IF a.Nonce > txn.Signoffs[i].Nonce + nonceDiff THEN "replay"
             ELSE CheckFlowsNoWait(db, txn, isBeforeApply, i + 1)

RECURSIVE CheckFlowsAnyNonce(_, _, _, _)
\* CheckFlows with the balance test only
CheckFlowsAnyNonce(db, txn, isBeforeApply, i) ==
    IF i > Len(txn.Flows) THEN "nil"
    ELSE IF txn.Flows[i].Amount > 0 THEN CheckFlowsAnyNonce(db, txn, isBeforeApply, i + 1)
    ELSE LET pks == NewPublicKeyString(txn.Flows[i].PublicKey)
             a == FindAccountByPublicKeyString(db, pks)
         IN  IF Wrap(a.Amount + txn.Flows[i].Amount) < 0 /\ pks \notin db.IsBank
                 THEN "belowzero"
             ELSE CheckFlowsAnyNonce(db, txn, isBeforeApply, i + 1)

RECURSIVE CheckFlows(_, _, _, _)
\* the balance and nonce loop of verifyTransaction from flow i on
CheckFlows(db, txn, isBeforeApply, i) ==
    IF i > Len(txn.Flows) THEN "nil"
    ELSE IF txn.Flows[i].Amount > 0 THEN CheckFlows(db, txn, isBeforeApply, i + 1)
    ELSE LET nonceDiff == IF isBeforeApply THEN 0 ELSE 1
             pks == NewPublicKeyString(txn.Flows[i].PublicKey)
             a == FindAccountByPublicKeyString(db, pks)
         IN  IF Wrap(a.Amount + txn.Flows[i].Amount) < 0 /\ pks \notin db.IsBank
                 THEN "belowzero"
             ELSE IF a.Nonce < txn.Signoffs[i].Nonce + nonceDiff THEN "wait"
             ELSE IF a.Nonce > txn.Signoffs[i].Nonce + nonceDiff THEN "replay"
             ELSE CheckFlows(db, txn, isBeforeApply, i + 1)

\* "nil" or the error returned; "panic" when Verify dereferences a nil Signature
verifyTransaction(db, txn, isBeforeApply) ==
    IF Len(txn.Flows) # Len(txn.Signoffs) THEN "malformed"
    ELSE LET result == Verify(txn)
         IN  IF result = "panic" THEN "panic"
             ELSE IF result = "false" THEN "signaturefail"
             ELSE IF FlowTotal(txn.Flows, 1, 0) # 0 THEN "nonZeroSum"
             ELSE CheckFlows(db, txn, isBeforeApply, 1)

\* ------------------------------------------------------------- operations
\* Every operation gives [db |-> the database it leaves, ret |-> its return
\* value]; ret = "panic" when the call panics, db then being the database as
\* the panic leaves it.

RECURSIVE Materialize(_, _, _)
\* first loop of PushTransaction: the accounts of the flows that are not positive
Materialize(db, txn, i) ==
    IF i > Len(txn.Flows) THEN db
    ELSE IF txn.Flows[i].Amount > 0 THEN Materialize(db, txn, i + 1)
    ELSE LET a == FindAccountByPublicKeyString(db, NewPublicKeyString(txn.Flows[i].PublicKey))
             b == IF AccountIsEmpty(a)
                  THEN [a EXCEPT !.PublicKey = txn.Flows[i].PublicKey, !.Nonce = 0]
                  ELSE a
         IN  Materialize(InsertAccount(db, b), txn, i + 1)

RECURSIVE ApplyFlowsCountZero(_, _, _)
\* the second loop with the nonce also raised by flows of Amount 0
ApplyFlowsCountZero(db, txn, i) ==
    IF i > Len(txn.Flows) THEN db
    ELSE LET a == FindAccountByPublicKeyString(db, NewPublicKeyString(txn.Flows[i].PublicKey))
             b == IF AccountIsEmpty(a) THEN [a EXCEPT !.PublicKey = txn.Flows[i].PublicKey] ELSE a
             c == IF txn.Flows[i].Amount <= 0 THEN [b EXCEPT !.Nonce = @ + 1] ELSE b
             d == [c EXCEPT !.Amount = Wrap(@ + txn.Flows[i].Amount)]
         IN  ApplyFlowsCountZero(InsertAccount(db, d), txn, i + 1)

RECURSIVE ApplyFlows(_, _, _)
\* second loop of PushTransaction
ApplyFlows(db, txn, i) ==
    IF i > Len(txn.Flows) THEN db
    ELSE LET a == FindAccountByPublicKeyString(db, NewPublicKeyString(txn.Flows[i].PublicKey))
             b == IF AccountIsEmpty(a) THEN [a EXCEPT !.PublicKey = txn.Flows[i].PublicKey] ELSE a
             c == IF txn.Flows[i].Amount < 0 THEN [b EXCEPT !.Nonce = @ + 1] ELSE b
             d == [c EXCEPT !.Amount = Wrap(@ + txn.Flows[i].Amount)]
         IN  ApplyFlows(InsertAccount(db, d), txn, i + 1)

\* a receipt linked to the receipt before Current
NewReceiptSkip(prevr, txn) ==
    LET h == [Transaction |-> txn,
              ChainLength |-> prevr.Hashed.ChainLength + 1,
              Previous |-> prevr.Hashed.Previous]
    IN  [Hashed |-> h, This |-> HashPointer([Hashed |-> h, This |-> NoHash])]

\* a receipt given the ChainLength of the receipt it follows
NewReceiptFlat(prevr, txn) ==
    LET h == [Transaction |-> txn,
              ChainLength |-> prevr.Hashed.ChainLength,
              Previous |-> prevr.This]
    IN  [Hashed |-> h, This |-> HashPointer([Hashed |-> h, This |-> NoHash])]

NewReceipt(prevr, txn) ==
    LET h == [Transaction |-> txn,
              ChainLength |-> prevr.Hashed.ChainLength + 1,
              Previous |-> prevr.This]
    IN  [Hashed |-> h, This |-> HashPointer([Hashed |-> h, This |-> NoHash])]

\* PushTransaction with the accounts materialized before the validation
PushTransactionOpEager(db, txn) ==
    LET prevr == db.This
        d0 == Materialize(db, txn, 1)
        err == verifyTransaction(d0, txn, TRUE)
        d1 == ApplyFlows(d0, txn, 1)
        r == NewReceipt(prevr, txn)
        d2 == SetThis(InsertReceipt(d1, r), r)
    IN  IF err # "nil" THEN [db |-> d0, ret |-> err]
        ELSE IF verifyTransaction(d2, txn, FALSE) # "nil" THEN [db |-> d2, ret |-> "panic"]
        ELSE [db |-> d2, ret |-> "nil"]

PushTransactionOp(db, txn) ==
    LET prevr == db.This
        err == verifyTransaction(db, txn, TRUE)
        d1 == ApplyFlows(Materialize(db, txn, 1), txn, 1)
        r == NewReceipt(prevr, txn)
        d2 == SetThis(InsertReceipt(d1, r), r)
    IN  IF err # "nil" THEN [db |-> db, ret |-> err]
        ELSE IF verifyTransaction(d2, txn, FALSE) # "nil" THEN [db |-> d2, ret |-> "panic"]
        ELSE [db |-> d2, ret |-> "nil"]

RECURSIVE UnapplyFlowsKeepNonce(_, _, _)
\* the undo loop without the Nonce--
UnapplyFlowsKeepNonce(db, txn, i) ==
    IF i > Len(txn.Flows) THEN db
    ELSE LET a == FindAccountByPublicKeyString(db, NewPublicKeyString(txn.Flows[i].PublicKey))
             b == [a EXCEPT !.Amount = Wrap(@ - txn.Flows[i].Amount)]
         IN  UnapplyFlowsKeepNonce(InsertAccount(db, b), txn, i + 1)

RECURSIVE UnapplyFlows(_, _, _)
\* the undo loop of PopReceipt
UnapplyFlows(db, txn, i) ==
    IF i > Len(txn.Flows) THEN db
    ELSE LET a == FindAccountByPublicKeyString(db, NewPublicKeyString(txn.Flows[i].PublicKey))
             b == [a EXCEPT !.Amount = Wrap(@ - txn.Flows[i].Amount)]
             c == IF txn.Flows[i].Amount < 0 THEN [b EXCEPT !.Nonce = @ - 1] ELSE b
         IN  UnapplyFlows(InsertAccount(db, c), txn, i + 1)

\* CanPopReceipt off by one
CanPopReceiptLong(db) ==
    db.This.Hashed.ChainLength > 1

CanPopReceipt(db) ==
    db.This.Hashed.ChainLength > 0

\* PopReceipt that also takes the receipt it leaves off the highest list
PopReceiptOpUnlist(db) ==
    LET txn == db.This.Hashed.Transaction
        r == FindReceiptByHashPointer(db, db.This.Hashed.Previous)
        d0 == [db EXCEPT !.HighestReceiptHashPointers =
                  SelectSeq(@, LAMBDA h : h # db.This.This)]
        d1 == SetThis(UnapplyFlows(d0, txn, 1), r)
    IN  IF db.This.Hashed.ChainLength = 0 THEN [db |-> db, ret |-> "false"]
        ELSE IF ReceiptIsEmpty(r) THEN [db |-> db, ret |-> "panic"]
        ELSE IF verifyTransaction(d1, d1.This.Hashed.Transaction, FALSE) # "nil"
             THEN [db |-> d1, ret |-> "panic"]
        ELSE [db |-> d1, ret |-> "true"]

PopReceiptOp(db) ==
    LET txn == db.This.Hashed.Transaction
        r == FindReceiptByHashPointer(db, db.This.Hashed.Previous)
        d1 == SetThis(UnapplyFlows(db, txn, 1), r)
    IN  IF db.This.Hashed.ChainLength = 0 THEN [db |-> db, ret |-> "false"]
        ELSE IF ReceiptIsEmpty(r) THEN [db |-> db, ret |-> "panic"]
        ELSE IF verifyTransaction(d1, d1.This.Hashed.Transaction, FALSE) # "nil"
             THEN [db |-> d1, ret |-> "panic"]
        ELSE [db |-> d1, ret |-> "true"]

\* nexts with the newest child first
nextsNewestFirst(db, p) ==
    LET h == FindNextReceipts(db, p)
    IN  [i \in 1 .. Len(h) |-> FindReceiptByHashPointer(db, h[Len(h) + 1 - i])]

\* nexts(p): the stored receipts of the hash pointers indexed under p
nexts(db, p) ==
    LET h == FindNextReceipts(db, p)
    IN  [i \in 1 .. Len(h) |-> FindReceiptByHashPointer(db, h[i])]

peekNext(db) ==
    nexts(db, db.This.This)

RECURSIVE ReapplyFlowsKeepNonce(_, _, _)
\* the redo loop without the Nonce++
ReapplyFlowsKeepNonce(db, txn, i) ==
    IF i > Len(txn.Flows) THEN db
    ELSE LET a == FindAccountByPublicKeyString(db, NewPublicKeyString(txn.Flows[i].PublicKey))
             b == [a EXCEPT !.Amount = Wrap(@ + txn.Flows[i].Amount)]
         IN  ReapplyFlowsKeepNonce(InsertAccount(db, b), txn, i + 1)

RECURSIVE ReapplyFlows(_, _, _)
\* the redo loop of PushReceipt
ReapplyFlows(db, txn, i) ==
    IF i > Len(txn.Flows) THEN db
    ELSE LET a == FindAccountByPublicKeyString(db, NewPublicKeyString(txn.Flows[i].PublicKey))
             b == [a EXCEPT !.Amount = Wrap(@ + txn.Flows[i].Amount)]
             c == IF txn.Flows[i].Amount < 0 THEN [b EXCEPT !.Nonce = @ + 1] ELSE b
         IN  ReapplyFlows(InsertAccount(db, c), txn, i + 1)

\* PushReceipt that takes redos[0] whatever i is
PushReceiptOpFirst(db, i) ==
    LET redos == peekNext(db)
        txn == redos[1].Hashed.Transaction
        d1 == ReapplyFlows(db, txn, 1)
        d2 == SetThis(d1, FindReceiptByHashPointer(d1, HashPointer(redos[1])))
    IN  IF Len(redos) < i THEN [db |-> db, ret |-> "notfound"]
        ELSE IF i < 0 \/ i >= Len(redos) THEN [db |-> db, ret |-> "panic"]
        ELSE IF verifyTransaction(d2, txn, FALSE) # "nil" THEN [db |-> d2, ret |-> "panic"]
        ELSE [db |-> d2, ret |-> "nil"]

\* i is the Go index, from 0; redos[i] out of range is a run-time panic
PushReceiptOp(db, i) ==
    LET redos == peekNext(db)
        txn == redos[i + 1].Hashed.Transaction
        d1 == ReapplyFlows(db, txn, 1)
        d2 == SetThis(d1, FindReceiptByHashPointer(d1, HashPointer(redos[i + 1])))
    IN  IF Len(redos) < i THEN [db |-> db, ret |-> "notfound"]
        ELSE IF i < 0 \/ i >= Len(redos) THEN [db |-> db, ret |-> "panic"]
        ELSE IF verifyTransaction(d2, txn, FALSE) # "nil" THEN [db |-> d2, ret |-> "panic"]
        ELSE [db |-> d2, ret |-> "nil"]

\* ------------------------------------------------------------ GotoReceipt
RECURSIVE GotoDescend(_, _)
\* the first loop of GotoReceipt: pop while This is longer than rcpt
GotoDescend(db, rcpt) ==
    IF db.This.Hashed.ChainLength > rcpt.Hashed.ChainLength /\ CanPopReceipt(db)
    THEN LET p == PopReceiptOp(db)
         IN  IF p.ret = "panic" THEN [db |-> p.db, ret |-> "panic"]
             ELSE GotoDescend(p.db, rcpt)
    ELSE [db |-> db, ret |-> "ok"]

RECURSIVE ChildIndexFrom(_, _, _)
\* the search loop for idx (a Go index, from 0): the first i with
\* nexts[i] == h, or 0 when there is none
ChildIndexFrom(nx, h, i) ==
    IF i >= Len(nx) THEN 0
    ELSE IF nx[i + 1] = h THEN i
    ELSE ChildIndexFrom(nx, h, i + 1)

RECURSIVE GotoCollect(_, _, _)
\* the second loop: walk there up to the chain length of This, stacking the
\* child indices
GotoCollect(db, there, st) ==
    IF db.This.Hashed.ChainLength < there.Hashed.ChainLength
    THEN LET nx == FindNextReceipts(db, there.Hashed.Previous)
             idx == ChildIndexFrom(nx, there.This, 0)
         IN  IF idx >= Len(nx) THEN [there |-> there, st |-> st, ret |-> "panic"]
             ELSE IF nx[idx + 1] # there.This THEN [there |-> there, st |-> st, ret |-> "panic"]
             ELSE GotoCollect(db, FindReceiptByHashPointer(db, there.Hashed.Previous),
                              Append(st, idx))
    ELSE [there |-> there, st |-> st, ret |-> "ok"]

RECURSIVE GotoWalkToGenesis(_, _, _)
\* the third loop without its test for the meeting point: it pops as long
\* as it can
GotoWalkToGenesis(db, there, st) ==
    IF CanPopReceipt(db)
    THEN LET nx == FindNextReceipts(db, there.Hashed.Previous)
             idx == ChildIndexFrom(nx, there.This, 0)
             up == FindReceiptByHashPointer(db, there.Hashed.Previous)
             p == PopReceiptOp(db)
         IN  IF p.ret = "panic"
             THEN [db |-> p.db, there |-> up, st |-> Append(st, idx), ret |-> "panic"]
             ELSE GotoWalkToGenesis(p.db, up, Append(st, idx))
    ELSE [db |-> db, there |-> there, st |-> st, ret |-> "ok"]

RECURSIVE GotoWalk(_, _, _)
\* the third loop: pop This and step there until they meet
GotoWalk(db, there, st) ==
    IF db.This.This # there.This /\ CanPopReceipt(db)
    THEN LET nx == FindNextReceipts(db, there.Hashed.Previous)
             idx == ChildIndexFrom(nx, there.This, 0)
             up == FindReceiptByHashPointer(db, there.Hashed.Previous)
             p == PopReceiptOp(db)
         IN  IF p.ret = "panic"
             THEN [db |-> p.db, there |-> up, st |-> Append(st, idx), ret |-> "panic"]
             ELSE GotoWalk(p.db, up, Append(st, idx))
    ELSE [db |-> db, there |-> there, st |-> st, ret |-> "ok"]

\* the last loop left out
GotoReplayNothing(db, st) ==
    [db |-> db, ret |-> "ok"]

RECURSIVE GotoReplay(_, _)
\* the last loop: PushReceipt(st.Pop()) while the stack is not empty; the
\* error PushReceipt returns is dropped
GotoReplay(db, st) ==
    IF Len(st) > 0
    THEN LET r == PushReceiptOp(db, st[Len(st)])
         IN  IF r.ret = "panic" THEN [db |-> r.db, ret |-> "panic"]
             ELSE GotoReplay(r.db, SubSeq(st, 1, Len(st) - 1))
    ELSE [db |-> db, ret |-> "ok"]

GotoReceiptOp(db, rcpt) ==
    LET a == GotoDescend(db, rcpt)
        b == GotoCollect(a.db, rcpt, << >>)
        c == GotoWalk(a.db, b.there, b.st)
        d == GotoReplay(c.db, c.st)
    IN  IF a.ret = "panic" THEN [db |-> a.db, ret |-> "panic"]
        ELSE IF a.db.This.This = rcpt.This THEN [db |-> a.db, ret |-> "true"]
        ELSE IF b.ret = "panic" THEN [db |-> a.db, ret |-> "panic"]
        ELSE IF a.db.This.Hashed.ChainLength # b.there.Hashed.ChainLength
             THEN [db |-> a.db, ret |-> "panic"]
        ELSE IF c.ret = "panic" THEN [db |-> c.db, ret |-> "panic"]
        ELSE IF d.ret = "panic" THEN [db |-> d.db, ret |-> "panic"]
        ELSE IF d.db.This.This = c.there.This THEN [db |-> d.db, ret |-> "true"]
        ELSE [db |-> d.db, ret |-> "false"]

\* ----------------------------------------------------------------- inputs
\* signoffs that all carry nonce n and no signature
Unsigned(flows, n) ==
    [Flows |-> flows, Signoffs |-> [i \in 1 .. Len(flows) |-> Signoff(n, NoSignature)]]

RECURSIVE SignEach(_, _, _, _)
\* Sign(key of flow i shifted by d, t, i) for every i from i on for which
\* all holds or the flow is not positive
SignEach(t, i, d, all) ==
    IF i > Len(t.Flows) THEN t
    ELSE IF all \/ t.Flows[i].Amount <= 0
         THEN SignEach(Sign(((t.Flows[i].PublicKey - 1 + d) % NumKeys) + 1, t, i), i + 1, d, all)
    ELSE SignEach(t, i + 1, d, all)

\* the ways a client signs a transaction over flows with nonce n: not at
\* all, each outflow by its owner, every flow by its owner, each outflow by
\* somebody else
Signings(flows, n) ==
    { Unsigned(flows, n),
      SignEach(Unsigned(flows, n), 1, 0, FALSE),
      SignEach(Unsigned(flows, n), 1, 0, TRUE),
      SignEach(Unsigned(flows, n), 1, 1, FALSE) }

\* the treasury, the only key AsBank is called for, and a customer
Treasury == 1
Customer == 2

\* the flows clients submit: single flows; a mint of Half; the customer
\* paying back 1 and Half; two transactions with two outflows, and with a
\* zero flow before an outflow
FlowSeqs ==
    { <<Flow(a, k)>> : a \in {0 - 1, 0, 1}, k \in Keys }
    \cup { <<Flow(0 - Half, Treasury), Flow(Half, Customer)>>,
           <<Flow(0 - 1, Customer), Flow(1, Treasury)>>,
           <<Flow(0 - Half, Customer), Flow(Half, Treasury)>>,
           <<Flow(0 - 1, Customer), Flow(0 - 1, Treasury), Flow(2, Customer)>>,
           <<Flow(0, Treasury), Flow(0 - 1, Customer), Flow(1, Treasury)>> }

\* the transactions clients submit
Txns ==
    UNION { Signings(f, n) : f \in FlowSeqs, n \in 0 .. MaxNonce }
    \cup { [Flows |-> f, Signoffs |-> << >>] : f \in FlowSeqs \ { << >> } }

\* a transaction that is never stored (it is malformed)
ForeignTransaction ==
    [Flows |-> <<Flow(0, NullKey)>>, Signoffs |-> << >>]

\* ------------------------------------------------------------ accumulator
\* The sharded record accumulator of main.go.  The curve group is cyclic of
\* prime order, so a point is the number of times the base point is added
\* to itself, modulo GroupOrder; 0 is the point ScalarBaseMult(nil) returns.
\* A *Point is an address; Heap gives the Point stored at each address.
NumShards == 2
NumIds == 2
NumNames == 2
GroupOrder == 11

Shards ==
    1 .. NumShards

\* Id is an int64 whose zero value is what a record has when no Id was set
Ids ==
    0 .. NumIds - 1

\* the records clients hold: Name stands for all the content besides the key
Records ==
    [Shard : Shards, Id : Ids, Name : 1 .. NumNames]

ScalarBaseMult(k) ==
    k % GroupOrder

CurveAdd(p, q) ==
    (p + q) % GroupOrder

\* the point with y replaced by -y
Negated(p) ==
    (GroupOrder - p) % GroupOrder

\* the address of the package variable ZeroPoint
ZeroPointAddress ==
    "ZeroPoint"

\* sha256.New().Sum([]byte(AsJson(v))): the JSON text followed by a constant,
\* read by ScalarBaseMult as a number; different records give different
\* numbers
Digest(v) ==
    1 + ((((v.Shard - 1) * NumIds) + v.Id) * NumNames) + (v.Name - 1)

\* NewDB, with the package variable ZeroPoint = zeroPoint(curve)
NewDB ==
    [Data |-> << >>, State |-> << >>,
     Heap |-> (ZeroPointAddress :> ScalarBaseMult(0))]

\* Db.sum: the Point that State[shard] points to is overwritten in place
sum(db, shard, h, neg) ==
    LET p1 == ScalarBaseMult(h)
        q == IF neg THEN Negated(p1) ELSE p1
        p == db.State[shard]
    IN  [db EXCEPT !.Heap[p] = CurveAdd(@, q)]

\* the two map initialisations Insert and Remove begin with
Touch(db, shard) ==
    LET d1 == IF shard \in DOMAIN db.Data THEN db
              ELSE [db EXCEPT !.Data = (shard :> << >>) @@ db.Data]
    IN  IF shard \in DOMAIN d1.State THEN d1
        ELSE [d1 EXCEPT !.State = (shard :> ZeroPointAddress) @@ d1.State]

\* an Insert that puts the new record in the place of a stored one
InsertOpReplace(db, v) ==
    LET d == Touch(db, v.Shard)
        old == d.Data[v.Shard][v.Id]
        d1 == IF v.Id \in DOMAIN d.Data[v.Shard]
              THEN sum(d, v.Shard, Digest(old), TRUE)
              ELSE d
        d2 == sum(d1, v.Shard, Digest(v), FALSE)
    IN  [db |-> [d2 EXCEPT !.Data[v.Shard] = (v.Id :> v) @@ d.Data[v.Shard]],
         ret |-> IF v.Id \in DOMAIN d.Data[v.Shard] THEN "exists" ELSE "nil"]

\* Db.Insert
InsertOp(db, v) ==
    LET d == Touch(db, v.Shard)
        d2 == sum(d, v.Shard, Digest(v), FALSE)
    IN  IF v.Id \in DOMAIN d.Data[v.Shard] THEN [db |-> d, ret |-> "exists"]
        ELSE [db |-> [d2 EXCEPT !.Data[v.Shard] = (v.Id :> v) @@ d.Data[v.Shard]],
              ret |-> "nil"]

\* delete(m, k)
MapDelete(m, k) ==
    [x \in DOMAIN m \ {k} |-> m[x]]

\* Db.Remove
RemoveOp(db, vToRemove) ==
    LET d == Touch(db, vToRemove.Shard)
        shard == vToRemove.Shard
        id == vToRemove.Id
        v == d.Data[shard][id]
        d2 == sum(d, shard, Digest(v), TRUE)
        d3 == [d2 EXCEPT !.Data[shard] = MapDelete(@, id)]
        d4 == IF DOMAIN d3.Data[shard] = {}
              THEN [d3 EXCEPT !.Data = MapDelete(@, shard)]
              ELSE d3
    IN  IF id \notin DOMAIN d.Data[shard] THEN [db |-> d, ret |-> "notexist"]
        ELSE IF Digest(vToRemove) # Digest(v) THEN [db |-> d, ret |-> "mismatch"]
        ELSE [db |-> d4, ret |-> "nil"]

\* the string "%s,%s" of the hex digits of X and of Y: no digits at all for
\* the point 0, whose X and Y are 0
PointString(p) ==
    IF p = 0 THEN << >> ELSE <<p>>

\* Db.Checksum: "," when the shard has no State
ChecksumOp(db, shard) ==
    IF shard \notin DOMAIN db.State THEN << >>
    ELSE PointString(db.Heap[db.State[shard]])

\* the zero value of sync.Mutex: no goroutine holds Db.Lock
Unlocked ==
    0

\* ------------------------------------------------- calls on goroutines
\* DbTest.Mutex is never locked: a call made on its own goroutine runs its
\* reads and writes of the storage between those of the others.
NumThreads == 2

Threads ==
    1 .. NumThreads

\* a goroutine in PushTransaction: where it is (pc), its argument txn, its
\* locals prevr, i and a, and what it returned
IdleThread ==
    [pc |-> "idle", txn |-> ZeroTransaction, prevr |-> ZeroReceipt, i |-> 0,
     a |-> ZeroAccount, ret |-> "nil"]

\* ------------------------------------------------------------------ state
VARIABLES Accounts, Receipts, NextReceipts, HighestReceiptHashPointers,
          Genesis, This, IsBank, op, ret, inflight, Data, State, Heap, Lock,
          Transactions, Index

vars == <<Accounts, Receipts, NextReceipts, HighestReceiptHashPointers,
          Genesis, This, IsBank, op, ret, inflight, Data, State, Heap, Lock,
          Transactions, Index>>

\* the queue of transactions of Stored, and the Index of its iterator
queue == <<Transactions, Index>>

ledger == <<Accounts, Receipts, NextReceipts, HighestReceiptHashPointers,
            Genesis, This, IsBank, queue>>

accumulator == <<Data, State, Heap, Lock>>

\* the database of the current state
Db ==
    [Accounts |-> Accounts, Receipts |-> Receipts, NextReceipts |-> NextReceipts,
     HighestReceiptHashPointers |-> HighestReceiptHashPointers,
     Genesis |-> Genesis, This |-> This, IsBank |-> IsBank]

\* the next state holds database d
Lands(d) ==
    /\ Accounts' = d.Accounts
    /\ Receipts' = d.Receipts
    /\ NextReceipts' = d.NextReceipts
    /\ HighestReceiptHashPointers' = d.HighestReceiptHashPointers
    /\ Genesis' = d.Genesis
    /\ This' = d.This
    /\ IsBank' = d.IsBank
    /\ UNCHANGED queue

\* the next state holds database d, after call o returned r, made with no
\* other call in flight
Becomes(d, o, r) ==
    /\ Lands(d)
    /\ op' = o
    /\ ret' = r
    /\ UNCHANGED <<inflight, accumulator>>

GenesisReceipt ==
    [ZeroReceipt EXCEPT !.This = HashPointer(ZeroReceipt)]

\* NewDBTest
NewDBTest ==
    InsertReceipt([Accounts |-> << >>, Receipts |-> << >>, NextReceipts |-> << >>,
                   HighestReceiptHashPointers |-> << >>,
                   Genesis |-> GenesisReceipt, This |-> GenesisReceipt, IsBank |-> {}],
                  GenesisReceipt)

Init ==
    /\ Accounts = NewDBTest.Accounts
    /\ Receipts = NewDBTest.Receipts
    /\ NextReceipts = NewDBTest.NextReceipts
    /\ HighestReceiptHashPointers = NewDBTest.HighestReceiptHashPointers
    /\ Genesis = NewDBTest.Genesis
    /\ This = NewDBTest.This
    /\ IsBank = NewDBTest.IsBank
    /\ op = "NewDBTest"
    /\ ret = "nil"
    /\ inflight = [start |-> NewDBTest, th |-> [p \in Threads |-> IdleThread]]
    /\ Data = NewDB.Data
    /\ State = NewDB.State
    /\ Heap = NewDB.Heap
    /\ Lock = Unlocked
    /\ Transactions = << >>
    /\ Index = 0

\* a panic ends the process
Running ==
    ret # "panic"

StoredReceipts ==
    { Receipts[h] : h \in DOMAIN Receipts }

\* the model stops storing receipts at MaxReceipts and stops growing the
\* highest list at MaxHighest
WithinBounds(d) ==
    /\ Cardinality(DOMAIN d.Receipts) <= MaxReceipts + 1
    /\ Len(d.HighestReceiptHashPointers) <= MaxHighest

AsBank ==
    /\ Running
    /\ \E k \in {Treasury} :
          Becomes([Db EXCEPT !.IsBank = @ \cup {NewPublicKeyString(k)}], "AsBank", "nil")

PushTransaction ==
    /\ Running
    /\ \E txn \in Txns :
          LET r == PushTransactionOp(Db, txn)
          IN  /\ WithinBounds(r.db)
              /\ Becomes(r.db, "PushTransaction", r.ret)

PopReceipt ==
    /\ Running
    /\ LET r == PopReceiptOp(Db)
       IN  Becomes(r.db, "PopReceipt", r.ret)

PushReceipt ==
    /\ Running
    /\ \E i \in (0 - 1) .. MaxReceipts :
          LET r == PushReceiptOp(Db, i)
          IN  Becomes(r.db, "PushReceipt", r.ret)

\* receipts a caller may hold that are not in the store: a child of a stored
\* receipt, and a child of that
Unstored ==
    { NewReceipt(p, ForeignTransaction) : p \in StoredReceipts }
    \cup { NewReceipt(NewReceipt(This, ForeignTransaction), ForeignTransaction) }

GotoReceipt ==
    /\ Running
    /\ \E rcpt \in StoredReceipts \cup Unstored :
          LET r == GotoReceiptOp(Db, rcpt)
          IN  Becomes(r.db, "GotoReceipt", r.ret)

Next ==
    \/ AsBank
    \/ PushTransaction
    \/ PopReceipt
    \/ PushReceipt
    \/ GotoReceipt

Spec ==
    Init /\ [][Next]_vars

\* ------------------------------------------------------------- properties
AccountOf(db, k) ==
    FindAccountByPublicKeyString(db, NewPublicKeyString(k))

KeyStrings ==
    { NewPublicKeyString(k) : k \in Keys }

RECURSIVE AmountTotal(_, _)
\* the sum, as an integer, of Amount over the accounts stored under S
AmountTotal(accts, S) ==
    IF S = {} THEN 0
    ELSE LET x == CHOOSE y \in S : TRUE
         IN  accts[x].Amount + AmountTotal(accts, S \ {x})

Errors ==
    {"malformed", "signaturefail", "nonZeroSum", "belowzero", "wait", "replay"}

\* C1: in every state that calls reach without a panic, the Amounts of all
\* accounts of the account table add up to 0
C1_TotalIsZero ==
    Running => AmountTotal(Accounts, DOMAIN Accounts) = 0

\* C2: in every state that calls reach without a panic, every account whose
\* key is not marked as a bank has Amount >= 0
C2_NonBankNotNegative ==
    Running => \A pks \in DOMAIN Accounts : pks \notin IsBank => Accounts[pks].Amount >= 0

\* C3: a step in which PushTransaction returns an error leaves the account
\* table, the receipt store, the children index, the highest-receipt list,
\* Genesis, Current and the bank set as they were
C3_ErrorLeavesStateUntouched ==
    [][(op' = "PushTransaction" /\ ret' \in Errors) => UNCHANGED ledger]_vars

\* C3 happens: PushTransaction returned Replay with receipts stored and a
\* balance not 0
C3_Witness ==
    /\ op = "PushTransaction"
    /\ ret = "replay"
    /\ Cardinality(DOMAIN Receipts) > 2
    /\ AccountOf(Db, Customer).Amount > 0

RECURSIVE PathTo(_, _)
\* the transactions of the receipts from Genesis (left out) to r, in order
PathTo(db, r) ==
    IF r.This = db.Genesis.This \/ ReceiptIsEmpty(r) THEN << >>
    ELSE Append(PathTo(db, FindReceiptByHashPointer(db, r.Hashed.Previous)),
                r.Hashed.Transaction)

RECURSIVE PlayFlows(_, _, _)
\* tab after each flow from i on added its Amount to its account and each
\* negative flow added 1 to that account's Nonce
PlayFlows(tab, flows, i) ==
    IF i > Len(flows) THEN tab
    ELSE LET k == flows[i].PublicKey
             n == IF flows[i].Amount < 0 THEN 1 ELSE 0
         IN  PlayFlows([tab EXCEPT ![k] = [Amount |-> Wrap(@.Amount + flows[i].Amount),
                                           Nonce |-> @.Nonce + n]],
                       flows, i + 1)

RECURSIVE PlayPath(_, _, _)
PlayPath(tab, path, i) ==
    IF i > Len(path) THEN tab
    ELSE PlayPath(PlayFlows(tab, path[i].Flows, 1), path, i + 1)

EmptyTable ==
    [k \in Keys |-> [Amount |-> 0, Nonce |-> 0]]

\* the fields of the account table that count: absent is Amount 0, Nonce 0
Balances(db) ==
    [k \in Keys |-> [Amount |-> AccountOf(db, k).Amount, Nonce |-> AccountOf(db, k).Nonce]]

\* C4: the account table is the one obtained from the empty table by
\* applying the transactions of the receipts from Genesis to Current, up to
\* accounts with Amount 0 and Nonce 0
C4_TableFollowsPath ==
    /\ Balances(Db) = PlayPath(EmptyTable, PathTo(Db, This), 1)
    /\ \A pks \in DOMAIN Accounts \ KeyStrings :
          Accounts[pks].Amount = 0 /\ Accounts[pks].Nonce = 0

\* C4 happens: navigation moved Current to a receipt two deep whose path
\* changed a balance and a nonce
C4_Witness ==
    /\ op \in {"GotoReceipt", "PushReceipt", "PopReceipt"}
    /\ ret # "panic"
    /\ This.Hashed.ChainLength = 2
    /\ Cardinality(DOMAIN Receipts) = MaxReceipts + 1
    /\ AccountOf(Db, Customer).Amount # 0
    /\ AccountOf(Db, Customer).Nonce > 0

\* C5: wherever PushTransaction(txn) is accepted, the PopReceipt() that
\* follows returns true and leaves every account's Amount and Nonce, and
\* Current, as they were before the push
C5_PushThenPopRestores ==
    Running =>
        \A txn \in Txns :
            LET p == PushTransactionOp(Db, txn)
                q == PopReceiptOp(p.db)
            IN  p.ret = "nil" =>
                    /\ q.ret = "true"
                    /\ Balances(q.db) = Balances(Db)
                    /\ q.db.This = This

\* C5 happens: a PopReceipt returned true at a receipt below which a
\* transaction that moves money is accepted and popped again
C5_Witness ==
    /\ Running
    /\ This.Hashed.ChainLength > 0
    /\ \E txn \in Txns :
          LET p == PushTransactionOp(Db, txn)
          IN  /\ p.ret = "nil"
              /\ Balances(p.db) # Balances(Db)
              /\ AccountOf(p.db, Customer).Nonce > AccountOf(Db, Customer).Nonce
              /\ PopReceiptOp(p.db).ret = "true"

RECURSIVE PopAll(_)
\* PopReceipt() until it can pop no more; k counts the pops
PopAll(db) ==
    IF CanPopReceipt(db)
    THEN LET p == PopReceiptOp(db)
             rest == PopAll(p.db)
         IN  IF p.ret # "true" THEN [db |-> p.db, ret |-> p.ret, k |-> 0]
             ELSE [db |-> rest.db, ret |-> rest.ret, k |-> rest.k + 1]
    ELSE [db |-> db, ret |-> "true", k |-> 0]

RECURSIVE PushFirst(_, _)
\* PushReceipt(0), k times
PushFirst(db, k) ==
    IF k = 0 THEN [db |-> db, ret |-> "nil"]
    ELSE LET p == PushReceiptOp(db, 0)
         IN  IF p.ret # "nil" THEN p ELSE PushFirst(p.db, k - 1)

RECURSIVE Unforked(_, _)
\* every receipt from r down to Genesis has one child in the children index
Unforked(db, r) ==
    /\ Len(FindNextReceipts(db, r.This)) = 1
    /\ \/ r.Hashed.ChainLength = 0
       \/ Unforked(db, FindReceiptByHashPointer(db, r.Hashed.Previous))

\* C6: PopReceipt() followed by PushReceipt(i), i the index of the popped
\* receipt among the children of its parent, gives back the account table
\* and Current; and on a chain without forks, popping to Genesis and then
\* PushReceipt(0) as many times gives back the account table and Current
C6_PopThenPushRestores ==
    (Running /\ CanPopReceipt(Db)) =>
        LET p == PopReceiptOp(Db)
            i == ChildIndexFrom(FindNextReceipts(p.db, p.db.This.This), This.This, 0)
            q == PushReceiptOp(p.db, i)
            a == PopAll(Db)
            b == PushFirst(a.db, a.k)
        IN  /\ p.ret = "true"
            /\ q.ret = "nil"
            /\ q.db.Accounts = Accounts
            /\ q.db.This = This
            /\ Unforked(Db, FindReceiptByHashPointer(Db, This.Hashed.Previous)) =>
                  /\ a.ret = "true"
                  /\ a.db.This = Genesis
                  /\ b.ret = "nil"
                  /\ b.db.Accounts = Accounts
                  /\ b.db.This = This

\* C6 happens: Current is the second child of its parent, two deep; and
\* (in another state) a chain of three receipts without forks is popped to
\* Genesis and pushed back
C6_Witness ==
    /\ Running
    /\ This.Hashed.ChainLength = 2
    /\ AccountOf(Db, Customer).Amount > 0
    /\ ChildIndexFrom(FindNextReceipts(Db, This.Hashed.Previous), This.This, 0) = 1
    /\ PopReceiptOp(Db).ret = "true"

C6_WitnessChain ==
    /\ Running
    /\ This.Hashed.ChainLength = MaxReceipts
    /\ Unforked(Db, FindReceiptByHashPointer(Db, This.Hashed.Previous))
    /\ PopAll(Db).k = MaxReceipts
    /\ op = "PushReceipt"

\* C7: from every state, GotoReceipt(target) for a stored target ends with
\* Current at target
C7_GotoArrives ==
    Running =>
        \A target \in StoredReceipts :
            LET g == GotoReceiptOp(Db, target)
            IN  g.ret # "panic" /\ g.db.This.This = target.This

\* C7 happens: a GotoReceipt has moved Current, and from there a target on
\* another branch is stored
C7_Witness ==
    /\ op = "GotoReceipt"
    /\ Running
    /\ This.Hashed.ChainLength = 2
    /\ \E target \in StoredReceipts :
          /\ target.Hashed.ChainLength = 1
          /\ target.This # This.Hashed.Previous
          /\ GotoReceiptOp(Db, target).db.This = target

\* C8: GotoReceipt(target), target stored, returns true exactly when it ends
\* with Current at target
C8_TrueIffArrived ==
    Running =>
        \A target \in StoredReceipts :
            LET g == GotoReceiptOp(Db, target)
            IN  g.ret # "panic" => ((g.ret = "true") <=> (g.db.This.This = target.This))

RECURSIVE SumOfFlows(_, _)
\* the sum of the Amounts from flow i on, as an integer
SumOfFlows(flows, i) ==
    IF i > Len(flows) THEN 0 ELSE flows[i].Amount + SumOfFlows(flows, i + 1)

\* well-formed, every flow that is not positive signed by its key, zero-sum
Presentable(txn) ==
    /\ Len(txn.Flows) = Len(txn.Signoffs)
    /\ Len(txn.Flows) > 0
    /\ \A i \in 1 .. Len(txn.Flows) :
          txn.Flows[i].Amount <= 0 =>
              txn.Signoffs[i].Signature = ecdsaSign(txn.Flows[i].PublicKey, flowHash(txn, i))
    /\ SumOfFlows(txn.Flows, 1) = 0

\* flow i is checked (it is not positive) and would take its account below
\* zero, the account not being a bank's
BalanceFails(db, txn, i) ==
    /\ txn.Flows[i].Amount <= 0
    /\ Wrap(AccountOf(db, txn.Flows[i].PublicKey).Amount + txn.Flows[i].Amount) < 0
    /\ NewPublicKeyString(txn.Flows[i].PublicKey) \notin db.IsBank

\* flow i is checked and its signoff nonce is not its account's nonce
NonceFails(db, txn, i) ==
    /\ txn.Flows[i].Amount <= 0
    /\ AccountOf(db, txn.Flows[i].PublicKey).Nonce # txn.Signoffs[i].Nonce

EarlierPass(db, txn, i) ==
    \A j \in 1 .. (i - 1) : ~BalanceFails(db, txn, j) /\ ~NonceFails(db, txn, j)

\* flow i is negative and signed off with a nonce below its account's
Stale(db, txn, i) ==
    /\ txn.Flows[i].Amount < 0
    /\ txn.Signoffs[i].Nonce < AccountOf(db, txn.Flows[i].PublicKey).Nonce

\* flow i is negative and signed off with a nonce above its account's
Early(db, txn, i) ==
    /\ txn.Flows[i].Amount < 0
    /\ txn.Signoffs[i].Nonce > AccountOf(db, txn.Flows[i].PublicKey).Nonce

\* PushTransaction(txn) returns r and leaves the database as it was
Rejects(txn, r) ==
    PushTransactionOp(Db, txn) = [db |-> Db, ret |-> r]

\* C9 as stated: a well-formed, signed, zero-sum transaction with a negative
\* flow whose signoff nonce is below its account's nonce, no earlier flow
\* failing the balance or nonce check, is rejected with Replay and changes
\* nothing
C9_StaleIsReplay ==
    Running =>
        \A txn \in Txns :
            (/\ Presentable(txn)
             /\ \E i \in 1 .. Len(txn.Flows) :
                   Stale(Db, txn, i) /\ EarlierPass(Db, txn, i))
            => Rejects(txn, "replay")

\* C9 amended: the same, when that flow's own balance check passes too; and
\* the transaction of Current, when it has a negative flow, is rejected with
\* Replay and changes nothing
C9_StaleWithBalanceIsReplay ==
    Running =>
        /\ \A txn \in Txns :
              (/\ Presentable(txn)
               /\ \E i \in 1 .. Len(txn.Flows) :
                     /\ Stale(Db, txn, i)
                     /\ ~BalanceFails(Db, txn, i)
                     /\ EarlierPass(Db, txn, i))
              => Rejects(txn, "replay")
        /\ (\E i \in 1 .. Len(This.Hashed.Transaction.Flows) :
               This.Hashed.Transaction.Flows[i].Amount < 0)
           => Rejects(This.Hashed.Transaction, "replay")

\* C9 happens: PushTransaction has returned Replay for the transaction of
\* Current, two deep, submitted again as it is
C9_Witness ==
    /\ op = "PushTransaction"
    /\ ret = "replay"
    /\ This.Hashed.ChainLength = 2
    /\ Presentable(This.Hashed.Transaction)
    /\ \E i \in 1 .. Len(This.Hashed.Transaction.Flows) :
          /\ Stale(Db, This.Hashed.Transaction, i)
          /\ ~BalanceFails(Db, This.Hashed.Transaction, i)
          /\ EarlierPass(Db, This.Hashed.Transaction, i)
    /\ Rejects(This.Hashed.Transaction, "replay")

\* C10 as stated: a well-formed, signed, zero-sum transaction with a
\* negative flow whose signoff nonce is above its account's nonce and whose
\* balance check passes is rejected with Wait and changes nothing
C10_EarlyIsWait ==
    Running =>
        \A txn \in Txns :
            (/\ Presentable(txn)
             /\ \E i \in 1 .. Len(txn.Flows) :
                   Early(Db, txn, i) /\ ~BalanceFails(Db, txn, i))
            => Rejects(txn, "wait")

\* C10 amended: the same, when no earlier flow fails the balance or nonce
\* check
C10_EarlyAfterPassingIsWait ==
    Running =>
        \A txn \in Txns :
            (/\ Presentable(txn)
             /\ \E i \in 1 .. Len(txn.Flows) :
                   /\ Early(Db, txn, i)
                   /\ ~BalanceFails(Db, txn, i)
                   /\ EarlierPass(Db, txn, i))
            => Rejects(txn, "wait")

\* C10 happens: PushTransaction has returned Wait with receipts stored, for
\* a transaction whose early flow is not the first flow
C10_Witness ==
    /\ op = "PushTransaction"
    /\ ret = "wait"
    /\ This.Hashed.ChainLength > 0
    /\ \E txn \in Txns :
          /\ Presentable(txn)
          /\ Len(txn.Flows) > 1
          /\ Early(Db, txn, 2)
          /\ ~BalanceFails(Db, txn, 2)
          /\ EarlierPass(Db, txn, 2)
          /\ Rejects(txn, "wait")

\* flow i is negative, its account is not a bank's, and the account's Amount
\* (0 when absent) plus the flow's Amount is, as an integer, below zero
Overdraws(db, txn, i) ==
    /\ txn.Flows[i].Amount < 0
    /\ NewPublicKeyString(txn.Flows[i].PublicKey) \notin db.IsBank
    /\ AccountOf(db, txn.Flows[i].PublicKey).Amount + txn.Flows[i].Amount < 0

\* C11: a well-formed, signed, zero-sum transaction with a negative flow that
\* would take an account not marked as bank below zero, no earlier flow
\* failing, is rejected with BelowZero and changes nothing; and BelowZero is
\* returned only when some flow of an account not marked as bank fails the
\* balance test
C11_OverdraftIsBelowZero ==
    Running =>
        \A txn \in Txns :
            /\ (/\ Presentable(txn)
                /\ \E i \in 1 .. Len(txn.Flows) :
                      Overdraws(Db, txn, i) /\ EarlierPass(Db, txn, i))
               => Rejects(txn, "belowzero")
            /\ PushTransactionOp(Db, txn).ret = "belowzero"
               => \E i \in 1 .. Len(txn.Flows) : BalanceFails(Db, txn, i)

\* ------------------------------------------------- sums at the int64 edge
\* A second specification over the same ledger: clients submit every
\* sequence of up to MaxSumFlows flows with amounts at both ends of the
\* int64 range, every flow signed by its owner with nonce 0.
MaxSumFlows == 3
MaxSumReceipts == 1

SumAmounts ==
    {MinInt, 1, Half, MaxInt}

SumFlows ==
    { Flow(a, k) : a \in SumAmounts, k \in Keys }

SumFlowSeqs ==
    UNION { [1 .. n -> SumFlows] : n \in 1 .. MaxSumFlows }

SumTxns ==
    { SignEach(Unsigned(f, 0), 1, 0, TRUE) : f \in SumFlowSeqs }

PushTransactionSum ==
    /\ Running
    /\ \E txn \in SumTxns :
          LET r == PushTransactionOp(Db, txn)
          IN  /\ Cardinality(DOMAIN r.db.Receipts) <= MaxSumReceipts + 1
              /\ Becomes(r.db, "PushTransaction", r.ret)

NextSum ==
    \/ AsBank
    \/ PushTransactionSum

SpecSum ==
    Init /\ [][NextSum]_vars

\* C12: a well-formed, signed transaction whose Amounts do not add up to 0
\* as integers is rejected with NonZeroSum and changes nothing
C12_NonZeroSumRejected ==
    Running =>
        \A txn \in SumTxns :
            SumOfFlows(txn.Flows, 1) # 0 => Rejects(txn, "nonZeroSum")

\* the signoff of flow i carries no signature, or one that is not the
\* signature of the flow's key over the flows and the signoff's nonce
BadlySigned(txn, i) ==
    txn.Signoffs[i].Signature # ecdsaSign(txn.Flows[i].PublicKey, flowHash(txn, i))

\* C13: a transaction with as many Signoffs as Flows in which some negative
\* flow is not signed, or not validly signed by its key, is rejected with
\* SigFail and changes nothing
C13_BadSignatureIsSigFail ==
    Running =>
        \A txn \in Txns :
            (/\ Len(txn.Flows) = Len(txn.Signoffs)
             /\ \E i \in 1 .. Len(txn.Flows) :
                   txn.Flows[i].Amount < 0 /\ BadlySigned(txn, i))
            => Rejects(txn, "signaturefail")

\* C14: PushReceipt(i) with i below 0 or not below the number of children
\* of Current returns NotFound and changes nothing
C14_OutOfRangeIsNotFound ==
    Running =>
        \A i \in (0 - 1) .. MaxReceipts :
            (i < 0 \/ i >= Len(peekNext(Db)))
            => PushReceiptOp(Db, i) = [db |-> Db, ret |-> "notfound"]

\* C15: with Current at Genesis PopReceipt() returns false and changes
\* nothing; anywhere else it returns true and leaves Current at the stored
\* parent of the receipt it popped; CanPopReceipt() is true exactly where
\* PopReceipt() returns true
C15_PopReturnsFalseOnlyAtGenesis ==
    Running =>
        LET p == PopReceiptOp(Db)
        IN  /\ This.This = Genesis.This => p = [db |-> Db, ret |-> "false"]
            /\ This.This # Genesis.This =>
                  /\ p.ret = "true"
                  /\ This.Hashed.Previous \in DOMAIN Receipts
                  /\ p.db.This = Receipts[This.Hashed.Previous]
            /\ CanPopReceipt(Db) <=> p.ret = "true"

\* C15 happens: PopReceipt has returned true and left Current at a receipt
\* that is not Genesis, from which it returns true again
C15_Witness ==
    /\ op = "PopReceipt"
    /\ ret = "true"
    /\ This.Hashed.ChainLength = 2
    /\ CanPopReceipt(Db)
    /\ PopReceiptOp(Db).ret = "true"
    /\ AccountOf(Db, Customer).Amount > 0

\* ------------------------------------------- PushTransaction on goroutines
\* A third specification: after an optional AsBank, NumThreads goroutines
\* call PushTransaction at once.  Each call runs the statements of
\* PushTransaction in order; the storage calls of different goroutines
\* interleave, because nothing is locked.
RaceFlowSeqs ==
    { <<Flow(0 - 1, Treasury), Flow(1, Customer)>>,
      <<Flow(0 - 1, Customer), Flow(1, Treasury)>> }

RaceTxns ==
    { SignEach(Unsigned(f, 0), 1, 0, FALSE) : f \in RaceFlowSeqs }

Idle ==
    \A p \in Threads : inflight.th[p].pc = "idle"

AllDone ==
    \A p \in Threads : inflight.th[p].pc = "done"

\* goroutine p moves on to thread record t
Moves(p, t) ==
    /\ inflight' = [inflight EXCEPT !.th[p] = t]
    /\ UNCHANGED accumulator

AsBankIdle ==
    /\ Idle
    /\ AsBank

\* every goroutine is handed its transaction
Issue ==
    /\ Running
    /\ Idle
    /\ \E calls \in [Threads -> RaceTxns] :
          inflight' = [start |-> Db,
                       th |-> [p \in Threads |->
                                  [IdleThread EXCEPT !.pc = "verify", !.txn = calls[p]]]]
    /\ UNCHANGED <<ledger, op, ret, accumulator>>

\* prevr := GetThis(); err := verifyTransaction(txn, true)
RaceVerify(p) ==
    LET t == inflight.th[p]
        err == verifyTransaction(Db, t.txn, TRUE)
    IN  /\ Running
        /\ t.pc = "verify"
        /\ Moves(p, [t EXCEPT !.prevr = This,
                              !.ret = err,
                              !.pc = IF err = "nil" THEN "materialize" ELSE "done"])
        /\ ret' = IF err = "panic" THEN "panic" ELSE ret
        /\ UNCHANGED <<ledger, op>>

\* the first loop
RaceMaterialize(p) ==
    LET t == inflight.th[p]
    IN  /\ Running
        /\ t.pc = "materialize"
        /\ Lands(Materialize(Db, t.txn, 1))
        /\ Moves(p, [t EXCEPT !.pc = "read", !.i = 1])
        /\ UNCHANGED <<op, ret>>

\* the second loop, a := FindAccountByPublicKeyString(pks)
RaceRead(p) ==
    LET t == inflight.th[p]
    IN  /\ Running
        /\ t.pc = "read"
        /\ Moves(p, [t EXCEPT !.pc = "write",
                              !.a = FindAccountByPublicKeyString(
                                        Db, NewPublicKeyString(t.txn.Flows[t.i].PublicKey))])
        /\ UNCHANGED <<ledger, op, ret>>

\* the second loop, from a.IsEmpty() to InsertAccount(a)
RaceWrite(p) ==
    LET t == inflight.th[p]
        f == t.txn.Flows[t.i]
        b == IF AccountIsEmpty(t.a) THEN [t.a EXCEPT !.PublicKey = f.PublicKey] ELSE t.a
        c == IF f.Amount < 0 THEN [b EXCEPT !.Nonce = @ + 1] ELSE b
        d == [c EXCEPT !.Amount = Wrap(@ + f.Amount)]
    IN  /\ Running
        /\ t.pc = "write"
        /\ Lands(InsertAccount(Db, d))
        /\ Moves(p, [t EXCEPT !.a = d, !.i = @ + 1,
                              !.pc = IF t.i < Len(t.txn.Flows) THEN "read" ELSE "store"])
        /\ UNCHANGED <<op, ret>>

\* the receipt is made from prevr and stored; SetThis(r)
RaceStore(p) ==
    LET t == inflight.th[p]
        r == NewReceipt(t.prevr, t.txn)
    IN  /\ Running
        /\ t.pc = "store"
        /\ Lands(SetThis(InsertReceipt(Db, r), r))
        /\ Moves(p, [t EXCEPT !.pc = "check"])
        /\ UNCHANGED <<op, ret>>

\* err = verifyTransaction(txn, false); panic(err) or return nil
RaceCheck(p) ==
    LET t == inflight.th[p]
        err == verifyTransaction(Db, t.txn, FALSE)
    IN  /\ Running
        /\ t.pc = "check"
        /\ Moves(p, [t EXCEPT !.pc = "done", !.ret = IF err = "nil" THEN "nil" ELSE "panic"])
        /\ ret' = IF err = "nil" THEN ret ELSE "panic"
        /\ op' = "PushTransaction"
        /\ UNCHANGED ledger

NextRace ==
    \/ AsBankIdle
    \/ Issue
    \/ \E p \in Threads : RaceVerify(p)
    \/ \E p \in Threads : RaceMaterialize(p)
    \/ \E p \in Threads : RaceRead(p)
    \/ \E p \in Threads : RaceWrite(p)
    \/ \E p \in Threads : RaceStore(p)
    \/ \E p \in Threads : RaceCheck(p)

SpecRace ==
    Init /\ [][NextRace]_vars

\* the orders in which the calls can be made one after the other
Orders ==
    { o \in [Threads -> Threads] : \A p, q \in Threads : o[p] = o[q] => p = q }

RECURSIVE OneByOne(_, _, _)
\* the database after the calls of inflight are made from db in order o,
\* from the k-th on
OneByOne(db, o, k) ==
    IF k > NumThreads THEN db
    ELSE OneByOne(PushTransactionOp(db, inflight.th[o[k]].txn).db, o, k + 1)

\* C16: when calls issued at once have all returned, the account table, the
\* receipt store and Current are those of the calls made one after the
\* other in some order
C16_CallsLinearize ==
    (Running /\ AllDone) =>
        \E o \in Orders :
            LET d == OneByOne(inflight.start, o, 1)
            IN  /\ Accounts = d.Accounts
                /\ Receipts = d.Receipts
                /\ This = d.This

\* ------------------------------------------------- accumulator, the calls
\* A fourth specification: clients Insert and Remove records; the ledger is
\* not touched.
AccDb ==
    [Data |-> Data, State |-> State, Heap |-> Heap]

\* the next state holds accumulator d, after call o returned r; the call
\* took Db.Lock and gave it back
AccBecomes(d, o, r) ==
    /\ Data' = d.Data
    /\ State' = d.State
    /\ Heap' = d.Heap
    /\ op' = o
    /\ ret' = r
    /\ UNCHANGED <<ledger, inflight, Lock>>

Insert ==
    \E v \in Records :
        LET r == InsertOp(AccDb, v)
        IN  AccBecomes(r.db, "Insert", r.ret)

Remove ==
    \E v \in Records :
        LET r == RemoveOp(AccDb, v)
        IN  AccBecomes(r.db, "Remove", r.ret)

NextAcc ==
    \/ Insert
    \/ Remove

SpecAcc ==
    Init /\ [][NextAcc]_vars


\* the records a shard holds
RecordsOf(db, shard) ==
    IF shard \in DOMAIN db.Data
    THEN { db.Data[shard][id] : id \in DOMAIN db.Data[shard] }
    ELSE {}

RECURSIVE SumOfDigests(_)
\* the points of a set of records added up in some order, from the point 0
SumOfDigests(rs) ==
    IF rs = {} THEN 0
    ELSE LET v == CHOOSE x \in rs : TRUE
         IN  CurveAdd(SumOfDigests(rs \ {v}), ScalarBaseMult(Digest(v)))

\* C17: a shard's Checksum is determined by the records the shard holds
\* alone: it is the string of the sum of their points, whatever calls led
\* there and in whatever order.
C17_ChecksumOfRecordSet ==
    \A s \in Shards :
        ChecksumOp(AccDb, s) = PointString(SumOfDigests(RecordsOf(AccDb, s)))


\* the key (Shard, Id) of v is stored
Present(db, v) ==
    /\ v.Shard \in DOMAIN db.Data
    /\ v.Id \in DOMAIN db.Data[v.Shard]

\* Insert(v) and then Remove(v)
InsertThenRemove(db, v) ==
    RemoveOp(InsertOp(db, v).db, v)

\* C18: where the key of r is not stored, Insert(r) and then Remove(r) both
\* succeed and leave the Checksum and the records of r's shard as they
\* were, and a shard whose records have all been removed has the Checksum
\* of an empty shard again.
C18_InsertThenRemoveRestores ==
    /\ \A r \in Records :
           ~Present(AccDb, r) =>
               /\ InsertOp(AccDb, r).ret = "nil"
               /\ InsertThenRemove(AccDb, r).ret = "nil"
               /\ ChecksumOp(InsertThenRemove(AccDb, r).db, r.Shard)
                      = ChecksumOp(AccDb, r.Shard)
               /\ RecordsOf(InsertThenRemove(AccDb, r).db, r.Shard)
                      = RecordsOf(AccDb, r.Shard)
    /\ \A s \in Shards :
           RecordsOf(AccDb, s) = {} => ChecksumOp(AccDb, s) = ChecksumOp(NewDB, s)


\* C19: a call of Insert or Remove for a record of shard A leaves the
\* Checksum of every other shard as it was.
C19_OtherShardsUntouched ==
    \A v \in Records : \A b \in Shards \ {v.Shard} :
        /\ ChecksumOp(InsertOp(AccDb, v).db, b) = ChecksumOp(AccDb, b)
        /\ ChecksumOp(RemoveOp(AccDb, v).db, b) = ChecksumOp(AccDb, b)

\* C20: Insert of a record whose key is stored returns the error and leaves
\* the stored record and the shard's Checksum as they were, whether the
\* content of the record is that of the stored one or not.
C20_InsertOfPresentKeyRejected ==
    \A v \in Records :
        Present(AccDb, v) =>
            /\ InsertOp(AccDb, v).ret = "exists"
            /\ InsertOp(AccDb, v).db.Data[v.Shard][v.Id] = Data[v.Shard][v.Id]
            /\ ChecksumOp(InsertOp(AccDb, v).db, v.Shard) = ChecksumOp(AccDb, v.Shard)
            /\ InsertOp(AccDb, v).db = AccDb

\* an Insert has just been refused, and the key it named is one of those
\* stored, for which records of both contents were offered
C20_Witness ==
    /\ op = "Insert"
    /\ ret = "exists"
    /\ \E v \in Records, w \in Records :
           /\ Present(AccDb, v)
           /\ w.Shard = v.Shard /\ w.Id = v.Id
           /\ Data[v.Shard][v.Id] = v
           /\ w # v
           /\ InsertOp(AccDb, w).ret = "exists"
           /\ InsertOp(AccDb, v).ret = "exists"


\* C21: Remove of a record whose key is not stored, in a shard used before
\* or not, or whose content is not that of the stored record, returns an
\* error and leaves the records and the Checksum of every shard as they
\* were.
C21_RemoveErrorChangesNothing ==
    \A v \in Records :
        (~Present(AccDb, v) \/ Data[v.Shard][v.Id] # v) =>
            /\ RemoveOp(AccDb, v).ret
                   = (IF Present(AccDb, v) THEN "mismatch" ELSE "notexist")
            /\ \A s \in Shards :
                   /\ RecordsOf(RemoveOp(AccDb, v).db, s) = RecordsOf(AccDb, s)
                   /\ ChecksumOp(RemoveOp(AccDb, v).db, s) = ChecksumOp(AccDb, s)


\* C22: two records of one shard that carry no Id, inserted one after the
\* other, are both stored, each under an Id of its own.
C22_ZeroIdsAreAssigned ==
    \A v \in Records : \A w \in Records :
        (v.Id = 0 /\ w.Id = 0 /\ w.Shard = v.Shard /\ ~Present(AccDb, v)) =>
            LET a == InsertOp(AccDb, v)
                b == InsertOp(a.db, w)
            IN  /\ a.ret = "nil"
                /\ b.ret = "nil"
                /\ Cardinality(DOMAIN b.db.Data[v.Shard])
                       = Cardinality(DOMAIN a.db.Data[v.Shard]) + 1


RECURSIVE FlowSumFor(_, _, _)
\* the sum, as an integer, of the Amounts of the flows of key k from i on
FlowSumFor(flows, k, i) ==
    IF i > Len(flows) THEN 0
    ELSE (IF flows[i].PublicKey = k THEN flows[i].Amount ELSE 0)
             + FlowSumFor(flows, k, i + 1)

\* the number of negative flows of key k
OutflowsFor(flows, k) ==
    Cardinality({ i \in 1 .. Len(flows) : flows[i].PublicKey = k /\ flows[i].Amount < 0 })

\* the keys the flows name
KeysOf(flows) ==
    { flows[i].PublicKey : i \in 1 .. Len(flows) }

\* what an accepted PushTransaction(txn) does to the nonces and to the
\* accounts it does not name
PushMovesNonces(db, txn, after) ==
    /\ \A k \in Keys :
           AccountOf(after, k).Nonce = AccountOf(db, k).Nonce + OutflowsFor(txn.Flows, k)
    /\ \A k \in KeysOf(txn.Flows) :
           /\ NewPublicKeyString(k) \in DOMAIN after.Accounts
           /\ AccountOf(after, k).PublicKey = k
    /\ \A pks \in DOMAIN after.Accounts :
           (\A k \in KeysOf(txn.Flows) : pks # NewPublicKeyString(k)) =>
               /\ pks \in DOMAIN db.Accounts
               /\ after.Accounts[pks] = db.Accounts[pks]

\* C23: where PushTransaction(txn) is accepted, every account's Amount has
\* changed by the sum of the Amounts of txn's flows for its key, an account
\* not stored before counting as Amount 0 and Nonce 0, every account's Nonce
\* has grown by the number of txn's negative flows for its key, and the
\* accounts txn does not name are as they were.
C23_PushAddsFlowSums ==
    Running =>
        \A txn \in Txns :
            LET p == PushTransactionOp(Db, txn)
            IN  p.ret = "nil" =>
                    /\ \A k \in Keys :
                           AccountOf(p.db, k).Amount
                               = AccountOf(Db, k).Amount + FlowSumFor(txn.Flows, k, 1)
                    /\ PushMovesNonces(Db, txn, p.db)

\* the same with the sums taken in int64
C23_PushAddsFlowSumsInt64 ==
    Running =>
        \A txn \in Txns :
            LET p == PushTransactionOp(Db, txn)
            IN  p.ret = "nil" =>
                    /\ \A k \in Keys :
                           AccountOf(p.db, k).Amount
                               = Wrap(AccountOf(Db, k).Amount + FlowSumFor(txn.Flows, k, 1))
                    /\ PushMovesNonces(Db, txn, p.db)


\* C24: where PushTransaction(txn) is accepted with Current = p, the new
\* Current is a stored receipt r whose Transaction is txn, whose ChainLength
\* is p's plus one, whose Previous is p.This and whose This is the hash of
\* its Hashed, and r.This is among the children of p.
C24_PushAppendsReceipt ==
    Running =>
        \A txn \in Txns :
            LET q == PushTransactionOp(Db, txn)
                r == q.db.This
            IN  q.ret = "nil" =>
                    /\ r.This \in DOMAIN q.db.Receipts
                    /\ q.db.Receipts[r.This] = r
                    /\ r.Hashed.Transaction = txn
                    /\ r.Hashed.ChainLength = This.Hashed.ChainLength + 1
                    /\ r.Hashed.Previous = This.This
                    /\ r.This = HashPointer(r)
                    /\ SeqContains(FindNextReceipts(q.db, This.This), r.This)

\* C24 happens: an accepted PushTransaction has made Current the second
\* child of a receipt that is not Genesis
C24_Witness ==
    /\ op = "PushTransaction"
    /\ ret = "nil"
    /\ This.Hashed.ChainLength = 2
    /\ Len(FindNextReceipts(Db, This.Hashed.Previous)) = 2
    /\ FindNextReceipts(Db, This.Hashed.Previous)[2] = This.This


\* C25: every stored receipt but Genesis has as Previous the This of a
\* stored receipt whose ChainLength is one less, Genesis is stored with
\* ChainLength 0, Current is a stored receipt, and the ChainLength of every
\* stored receipt is the number of receipts between Genesis and it.
C25_ChainIsLinked ==
    /\ Genesis \in StoredReceipts
    /\ Genesis.Hashed.ChainLength = 0
    /\ This \in StoredReceipts
    /\ \A h \in DOMAIN Receipts : Receipts[h].This = h
    /\ \A r \in StoredReceipts :
           /\ r # Genesis =>
                  /\ r.Hashed.Previous \in DOMAIN Receipts
                  /\ Receipts[r.Hashed.Previous].Hashed.ChainLength
                         = r.Hashed.ChainLength - 1
           /\ Len(PathTo(Db, r)) = r.Hashed.ChainLength

\* C25 happens: the store holds a fork two receipts deep and navigation has
\* moved Current off the receipt stored last
C25_Witness ==
    /\ Cardinality(DOMAIN Receipts) = MaxReceipts + 1
    /\ \E r \in StoredReceipts : r.Hashed.ChainLength = 2
    /\ \E h \in DOMAIN NextReceipts : Len(NextReceipts[h]) = 2
    /\ op \in {"PopReceipt", "GotoReceipt"}
    /\ This.Hashed.ChainLength = 1


\* Highest(): the stored receipts of the hash pointers listed
Highest(db) ==
    { FindReceiptByHashPointer(db, db.HighestReceiptHashPointers[i]) :
          i \in 1 .. Len(db.HighestReceiptHashPointers) }

\* the largest ChainLength stored
MaxChainLength ==
    CHOOSE n \in { r.Hashed.ChainLength : r \in StoredReceipts } :
        \A r \in StoredReceipts : r.Hashed.ChainLength <= n

\* C26: the receipts Highest() returns are the stored receipts whose
\* ChainLength is the largest ChainLength stored, all of them and no other.
C26_HighestAreTheLongest ==
    Highest(Db) = { r \in StoredReceipts : r.Hashed.ChainLength = MaxChainLength }

\* C26 happens: after a pop, an accepted PushTransaction has stored a second
\* receipt of the largest ChainLength next to the one popped, and both are
\* listed
C26_Witness ==
    /\ op = "PushTransaction"
    /\ ret = "nil"
    /\ MaxChainLength = 2
    /\ This \in Highest(Db)
    /\ \E r \in Highest(Db) : r # This /\ r.Hashed.Previous = This.Hashed.Previous

\* q begins with p
IsPrefix(p, q) ==
    /\ Len(p) <= Len(q)
    /\ \A i \in 1 .. Len(p) : q[i] = p[i]

\* C27: no step removes a stored receipt or changes its Hashed or its This,
\* whether it stores a receipt, appends a child or moves Current; the list
\* of children of a receipt only grows at its end.
C27_ReceiptsAppendOnly ==
    [][/\ \A h \in DOMAIN Receipts :
              /\ h \in DOMAIN Receipts'
              /\ Receipts'[h] = Receipts[h]
       /\ \A p \in DOMAIN NextReceipts :
              /\ p \in DOMAIN NextReceipts'
              /\ IsPrefix(NextReceipts[p], NextReceipts'[p])
       /\ Genesis' = Genesis]_vars

\* C27 happens: a receipt that has a child of its own has been given a
\* sibling, and navigation then went back to that child
C27_Witness ==
    /\ op \in {"GotoReceipt", "PushReceipt"}
    /\ ret \in {"true", "nil"}
    /\ This.Hashed.ChainLength = 2
    /\ Len(FindNextReceipts(Db, Genesis.This)) = 2
    /\ FindNextReceipts(Db, Genesis.This)[1] = This.Hashed.Previous


\* the signature at index i of t is one Verify accepts
SignatureValid(t, i) ==
    /\ t.Signoffs[i].Signature # NoSignature
    /\ ecdsaVerify(t.Flows[i].PublicKey, flowHash(t, i), t.Signoffs[i].Signature)

\* t and u differ at most in the Signature of signoff i
SameButSignature(t, u, i) ==
    /\ u.Flows = t.Flows
    /\ Len(u.Signoffs) = Len(t.Signoffs)
    /\ \A m \in 1 .. Len(t.Signoffs) :
           /\ u.Signoffs[m].Nonce = t.Signoffs[m].Nonce
           /\ m # i => u.Signoffs[m].Signature = t.Signoffs[m].Signature

\* transactions to be signed: the flows clients submit, a nonce on each signoff
Signable ==
    { Unsigned(f, n) : f \in FlowSeqs, n \in 0 .. MaxNonce }

\* Sign changes the one Signature, and what is signed at i stays valid, or
\* invalid, when another key signs at j before or after
SigningCommutes(t) ==
    \A i \in 1 .. Len(t.Flows) : \A k1 \in Keys :
        /\ SameButSignature(t, Sign(k1, t, i), i)
        /\ SignatureValid(Sign(k1, t, i), i) <=> (k1 = t.Flows[i].PublicKey)
        /\ \A j \in (1 .. Len(t.Flows)) \ {i} : \A k2 \in Keys :
               LET a == Sign(k2, Sign(k1, t, i), j)
                   b == Sign(k1, Sign(k2, t, j), i)
               IN  /\ SignatureValid(a, i) <=> SignatureValid(Sign(k1, t, i), i)
                   /\ SignatureValid(b, i) <=> SignatureValid(Sign(k1, t, i), i)
                   /\ SignatureValid(a, j) <=> SignatureValid(Sign(k2, t, j), j)
                   /\ SignatureValid(b, j) <=> SignatureValid(Sign(k2, t, j), j)

\* PushTransaction returns the same, and leaves the same accounts, for t and
\* for t with a positive flow signed by any key
PositiveSignatureIgnored(t) ==
    \A i \in 1 .. Len(t.Flows) : \A k \in Keys :
        (Len(t.Signoffs) = Len(t.Flows) /\ t.Flows[i].Amount > 0) =>
            LET p == PushTransactionOp(Db, t)
                q == PushTransactionOp(Db, Sign(k, t, i))
            IN  /\ q.ret = p.ret
                /\ q.db.Accounts = p.db.Accounts
                /\ verifyTransaction(Db, Sign(k, t, i), TRUE) = verifyTransaction(Db, t, TRUE)

\* C28: Sign(k, txn, i) changes only Signoffs[i].Signature, so signatures
\* set at different indices by different keys, in either order, stay as
\* valid as each is alone; and a transaction whose positive flows are signed
\* too is accepted or refused exactly as without those signatures.
C28_SigningIsOrderIndependent ==
    /\ \A t \in Signable : SigningCommutes(t)
    /\ Running => \A t \in Txns : PositiveSignatureIgnored(t)

\* C28 happens: a transaction signed by the payer and by the receiver of its
\* positive flow has been accepted
C28_Witness ==
    /\ op = "PushTransaction"
    /\ ret = "nil"
    /\ LET t == This.Hashed.Transaction
       IN  /\ Len(t.Flows) = 2
           /\ t.Flows[2].Amount > 0
           /\ SignatureValid(t, 1)
           /\ SignatureValid(t, 2)
           /\ t.Flows[1].PublicKey # t.Flows[2].PublicKey


RECURSIVE OutflowsOnPath(_, _, _)
\* the number of negative flows of key k in the transactions of path from i on
OutflowsOnPath(path, k, i) ==
    IF i > Len(path) THEN 0
    ELSE OutflowsFor(path[i].Flows, k) + OutflowsOnPath(path, k, i + 1)

\* C29, in every state: each account's Nonce is the number of negative flows
\* of its key in the receipts from Genesis to Current, and so is not negative.
C29_NonceCountsOutflows ==
    \A k \in Keys :
        /\ AccountOf(Db, k).Nonce = OutflowsOnPath(PathTo(Db, This), k, 1)
        /\ AccountOf(Db, k).Nonce >= 0

\* C29, in every step: PushTransaction and PushReceipt lower no Nonce, and
\* PopReceipt lowers each Nonce by the number of negative flows of its key
\* in the receipt popped.
C29_NonceSteps ==
    [][\A k \in Keys :
           /\ op' \in {"PushTransaction", "PushReceipt"} =>
                  AccountOf(Db, k).Nonce' >= AccountOf(Db, k).Nonce
           /\ (op' = "PopReceipt" /\ ret' = "true") =>
                  AccountOf(Db, k).Nonce'
                      = AccountOf(Db, k).Nonce
                            - OutflowsFor(This.Hashed.Transaction.Flows, k)]_vars

\* C29: both of the above
C29_NonceFollowsPath ==
    [](C29_NonceCountsOutflows) /\ C29_NonceSteps

\* C29 happens: PopReceipt has undone a receipt with an outflow and left an
\* account whose Nonce is not 0
C29_Witness ==
    /\ op = "PopReceipt"
    /\ ret = "true"
    /\ This.Hashed.ChainLength = 1
    /\ \E k \in Keys : AccountOf(Db, k).Nonce = 1
    /\ \E r \in StoredReceipts :
           /\ r.Hashed.Previous = This.This
           /\ \E k \in Keys : OutflowsFor(r.Hashed.Transaction.Flows, k) > 0


\* every transaction the first validation lets through is pushed without a panic
PushSelfCheckPasses ==
    \A txn \in Txns :
        verifyTransaction(Db, txn, TRUE) = "nil" => PushTransactionOp(Db, txn).ret = "nil"

\* the validation that ends PopReceipt passes
PopSelfCheckPasses ==
    PopReceiptOp(Db).ret # "panic"

\* the validation that ends PushReceipt(i) passes for every child i
RedoSelfCheckPasses ==
    \A i \in 0 .. Len(peekNext(Db)) - 1 : PushReceiptOp(Db, i).ret = "nil"

\* C30: in every state reached without a panic, a transaction that passes
\* verifyTransaction with isBeforeApply = true also passes it with
\* isBeforeApply = false once applied, so that PushTransaction does not
\* panic, and the validations that end PopReceipt and PushReceipt pass.
C30_SelfCheckNeverFails ==
    Running => PushSelfCheckPasses /\ PopSelfCheckPasses /\ RedoSelfCheckPasses


\* t with the signoff of every flow that is not negative replaced by one
\* that carries nonce n and no signature
StripNonNegative(t, n) ==
    [t EXCEPT !.Signoffs =
        [i \in 1 .. Len(t.Signoffs) |->
             IF t.Flows[i].Amount >= 0 THEN Signoff(n, NoSignature) ELSE t.Signoffs[i]]]

\* zero-sum transactions whose flows that are not negative carry no
\* signature and any nonce
LooselySigned ==
    { StripNonNegative(t, n) :
          t \in { u \in Txns : Len(u.Signoffs) = Len(u.Flows) }, n \in 0 .. MaxNonce }

\* the negative flows of txn pass the signature, balance and nonce checks
NegativesPass(db, txn) ==
    /\ FlowTotal(txn.Flows, 1, 0) = 0
    /\ \A i \in 1 .. Len(txn.Flows) :
           txn.Flows[i].Amount < 0 =>
               LET pks == NewPublicKeyString(txn.Flows[i].PublicKey)
                   a == FindAccountByPublicKeyString(db, pks)
               IN  /\ SignatureValid(txn, i)
                   /\ (Wrap(a.Amount + txn.Flows[i].Amount) >= 0 \/ pks \in db.IsBank)
                   /\ a.Nonce = txn.Signoffs[i].Nonce

\* C31: a zero-sum transaction whose flows with Amount >= 0 carry no
\* signature and any nonce is accepted when its negative flows pass their
\* checks, and the Nonce of an account changes only by its negative flows.
C31_OnlyNegativeFlowsChecked ==
    Running =>
        \A txn \in LooselySigned :
            NegativesPass(Db, txn) =>
                /\ PushTransactionOp(Db, txn).ret = "nil"
                /\ \A k \in Keys :
                       AccountOf(PushTransactionOp(Db, txn).db, k).Nonce
                           = AccountOf(Db, k).Nonce + OutflowsFor(txn.Flows, k)


\* no element of q occurs twice
NoDuplicates(q) ==
    \A i \in 1 .. Len(q) : \A j \in 1 .. Len(q) : q[i] = q[j] => i = j

\* C32: an accepted PushTransaction whose receipt is already stored, as
\* after PopReceipt and a push of the same transaction, leaves the receipt
\* store, the children lists and the highest list as they were, and no
\* children list and not the highest list names a hash pointer twice.
C32_InsertReceiptIdempotent ==
    Running =>
        /\ NoDuplicates(HighestReceiptHashPointers)
        /\ \A p \in DOMAIN NextReceipts : NoDuplicates(NextReceipts[p])
        /\ \A txn \in Txns :
               LET q == PushTransactionOp(Db, txn)
               IN  (q.ret = "nil" /\ q.db.This.This \in DOMAIN Receipts) =>
                       /\ q.db.Receipts = Receipts
                       /\ q.db.NextReceipts = NextReceipts
                       /\ q.db.HighestReceiptHashPointers = HighestReceiptHashPointers


\* the receipts PeekNextReceipts() returns are the stored receipts whose
\* Previous is Current, each once, in the order of the children index; and
\* PushReceipt(i) makes the i-th of them Current and adds the flows of its
\* transaction, and nothing else, to the accounts
PeekAndRedo ==
    LET redos == peekNext(Db)
        idx == FindNextReceipts(Db, This.This)
    IN  /\ { redos[i] : i \in 1 .. Len(redos) }
               = { r \in StoredReceipts : r.Hashed.Previous = This.This }
        /\ NoDuplicates(redos)
        /\ Len(redos) = Len(idx)
        /\ \A i \in 1 .. Len(redos) :
               LET q == PushReceiptOp(Db, i - 1)
               IN  /\ redos[i].This = idx[i]
                   /\ q.ret = "nil"
                   /\ q.db.This = Receipts[idx[i]]
                   /\ Balances(q.db)
                          = PlayFlows(Balances(Db), redos[i].Hashed.Transaction.Flows, 1)

\* a receipt stored for the first time goes to the end of the children of
\* its parent, behind the children stored before, whose order stays
ChildrenInInsertionOrder ==
    [][/\ \A p \in DOMAIN NextReceipts :
              /\ p \in DOMAIN NextReceipts'
              /\ IsPrefix(NextReceipts[p], NextReceipts'[p])
       /\ (op' = "PushTransaction" /\ ret' = "nil" /\ This'.This \notin DOMAIN Receipts) =>
              /\ This.This \in DOMAIN NextReceipts'
              /\ NextReceipts'[This.This] = Append(FindNextReceipts(Db, This.This), This'.This)
              /\ This'.Hashed.Previous = This.This]_vars

\* C33: PeekNextReceipts() returns exactly the stored receipts whose
\* Previous is Current.This in the order they were first stored; a push of
\* another transaction after a pop leaves the parent with both children;
\* PushReceipt(i) for a valid i makes the i-th child Current and applies
\* that child's transaction.
C33_PeekAndRedoFollowIndex ==
    [](Running => PeekAndRedo) /\ ChildrenInInsertionOrder

\* C33 happens: PushReceipt(1) has made the second child of a receipt Current
C33_Witness ==
    /\ op = "PushReceipt"
    /\ ret = "nil"
    /\ Len(FindNextReceipts(Db, This.Hashed.Previous)) = 2
    /\ FindNextReceipts(Db, This.Hashed.Previous)[2] = This.This
    /\ AccountOf(Db, Customer).Amount # 0


\* C34: GotoReceipt of a receipt that is not stored, whatever ChainLength
\* and Previous it carries, returns false, without a panic and with the
\* receipt store, the children lists and the highest list as they were.
C34_UnstoredTargetIsFalse ==
    Running =>
        \A rcpt \in Unstored :
            LET g == GotoReceiptOp(Db, rcpt)
            IN  /\ g.ret = "false"
                /\ g.db.Receipts = Receipts
                /\ g.db.NextReceipts = NextReceipts
                /\ g.db.HighestReceiptHashPointers = HighestReceiptHashPointers


\* no flow of txn has Amount 0
NoZeroFlow(txn) ==
    \A i \in 1 .. Len(txn.Flows) : txn.Flows[i].Amount # 0

\* C35: a transaction rejected with Wait is accepted when it is submitted
\* again after the ledger has accepted a transaction that raised the
\* signers' nonces to its signoff nonces, the balances being sufficient.
C35_WaitingIsAcceptedLater ==
    Running =>
        \A txn \in Txns :
            (Rejects(txn, "wait") /\ NoZeroFlow(txn)) =>
                \A u \in Txns :
                    LET q == PushTransactionOp(Db, u)
                    IN  (q.ret = "nil" /\ NegativesPass(q.db, txn)) =>
                            PushTransactionOp(q.db, txn).ret = "nil"


\* txn has a flow with Amount < 0
HasOutflow(txn) ==
    \E i \in 1 .. Len(txn.Flows) : txn.Flows[i].Amount < 0

\* C36: no two receipts on the path from Genesis to Current carry the same
\* transaction when that transaction has a negative flow.
C36_NoOutflowTwiceOnPath ==
    LET path == PathTo(Db, This)
    IN  \A i \in 1 .. Len(path) : \A j \in 1 .. Len(path) :
            (i # j /\ HasOutflow(path[i])) => path[i] # path[j]

\* C36 happens: navigation has made Current a receipt whose path holds the
\* same flows twice, signed with the nonces 0 and 1, and the transaction of
\* Current is refused when pushed again
C36_Witness ==
    /\ op \in {"GotoReceipt", "PushReceipt"}
    /\ Running
    /\ This.Hashed.ChainLength = 2
    /\ LET path == PathTo(Db, This)
       IN  /\ path[1].Flows = path[2].Flows
           /\ HasOutflow(path[2])
           /\ Rejects(path[2], "replay")
           /\ Rejects(path[1], "replay")


\* C37: a step of PopReceipt, PushReceipt or GotoReceipt, whatever it
\* returns, leaves the stored receipts, every children list, the highest
\* list, Genesis and the bank set as they were.
C37_NavigationKeepsChain ==
    [][op' \in {"PopReceipt", "PushReceipt", "GotoReceipt"} =>
           UNCHANGED <<Receipts, NextReceipts, HighestReceiptHashPointers, Genesis, IsBank>>]_vars

\* C37 happens: GotoReceipt has moved Current from one branch to another
\* and changed the accounts
C37_Witness ==
    /\ op = "GotoReceipt"
    /\ ret = "true"
    /\ This.Hashed.ChainLength = 1
    /\ Len(FindNextReceipts(Db, Genesis.This)) = 2
    /\ FindNextReceipts(Db, Genesis.This)[1] = This.This
    /\ Len(HighestReceiptHashPointers) = 1
    /\ HighestReceiptHashPointers[1] # This.This
    /\ AccountOf(Db, Customer).Amount # 0


\* ------------------------------------------------- C38: the path of a goto
RECURSIVE AncestorsOf(_, _)
\* the hash pointers of r and of every receipt between it and Genesis
AncestorsOf(db, r) ==
    IF r.Hashed.ChainLength <= 0 THEN {r.This}
    ELSE {r.This} \cup AncestorsOf(db, FindReceiptByHashPointer(db, r.Hashed.Previous))

\* the longest receipt that is on the chain of a and on the chain of b
DeepestCommonAncestor(db, a, b) ==
    LET common == { FindReceiptByHashPointer(db, h) :
                       h \in AncestorsOf(db, a) \cap AncestorsOf(db, b) }
    IN  CHOOSE r \in common :
            \A q \in common : q.Hashed.ChainLength <= r.Hashed.ChainLength

RECURSIVE PathDown(_, _, _)
\* the hash pointers on the chain from anc (left out) down to r (included)
PathDown(db, anc, r) ==
    IF r.This = anc.This \/ r.Hashed.ChainLength <= 0 THEN << >>
    ELSE Append(PathDown(db, anc, FindReceiptByHashPointer(db, r.Hashed.Previous)),
                r.This)

RECURSIVE ReplayVisits(_, _)
\* the receipts Current takes, in order, while the last loop of GotoReceipt
\* empties the stack st
ReplayVisits(db, st) ==
    IF Len(st) = 0 THEN << >>
    ELSE LET r == PushReceiptOp(db, st[Len(st)])
         IN  <<r.db.This.This>> \o ReplayVisits(r.db, SubSeq(st, 1, Len(st) - 1))

\* C38: GotoReceipt(target), target stored, terminates without a panic; its
\* pops (each one moves Current to its parent) stay on the chain of the
\* starting receipt and stop exactly at the deepest common ancestor of the
\* starting receipt and target, and its pushes then take Current through
\* exactly the receipts from that ancestor down to target
C38_GotoFollowsTreePath ==
    Running =>
        \A target \in StoredReceipts :
            LET anc == DeepestCommonAncestor(Db, This, target)
                a == GotoDescend(Db, target)
                b == GotoCollect(a.db, target, << >>)
                c == GotoWalk(a.db, b.there, b.st)
                g == GotoReceiptOp(Db, target)
            IN  /\ g.ret # "panic"
                /\ g.db.This.This = target.This
                /\ a.db.This.This \in AncestorsOf(Db, This)
                /\ a.db.This.Hashed.ChainLength >= anc.Hashed.ChainLength
                /\ IF a.db.This.This = target.This
                   THEN anc.This = target.This /\ g.db.This = a.db.This
                   ELSE /\ c.db.This.This = anc.This
                        /\ ReplayVisits(c.db, c.st) = PathDown(Db, anc, target)

\* C38 happens: a GotoReceipt has moved Current to a receipt of length 2,
\* and a stored sibling of it is a target whose path from Current turns at
\* their parent, which is not Genesis
C38_Witness ==
    /\ op = "GotoReceipt"
    /\ Running
    /\ This.Hashed.ChainLength = 2
    /\ \E target \in StoredReceipts :
          /\ target.This # This.This
          /\ target.Hashed.Previous = This.Hashed.Previous
          /\ DeepestCommonAncestor(Db, This, target).This = This.Hashed.Previous
          /\ DeepestCommonAncestor(Db, This, target).This # Genesis.This
          /\ GotoWalk(Db, target, << >>).db.This.This = This.Hashed.Previous
          /\ ReplayVisits(GotoWalk(Db, target, << >>).db,
                          GotoWalk(Db, target, << >>).st) = <<target.This>>


\* ------------------------------------- accumulator, calls on goroutines
\* A fifth specification: goroutines call Insert, Remove and Checksum on one
\* Db at once.  Every call begins with db.Lock.Lock() and gives the lock
\* back when it returns; between the two it runs step by step.
MaxRounds == 2

\* the calls a goroutine makes; Checksum is given the Shard of v
AccCalls ==
    [name : {"Insert", "Remove"}, v : Records]
    \cup { [name |-> "Checksum", v |-> [Shard |-> s, Id |-> 0, Name |-> 1]] : s \in Shards }

\* A Point holds an X and a Y that sum assigns one after the other.  A cell
\* of Heap whose X is that of point x and whose Y is that of point y is the
\* number x itself when x = y, and a number from GroupOrder on otherwise.
Mixed(x, y) ==
    IF x = y THEN x ELSE (GroupOrder * (x + 1)) + y

\* the point the X of a cell comes from
XOf(c) ==
    IF c < GroupOrder THEN c ELSE (c \div GroupOrder) - 1

\* the point the Y of a cell comes from
YOf(c) ==
    c % GroupOrder

\* X and Y of the cell are those of one point
Whole(c) ==
    c < GroupOrder

\* a goroutine in a call: where it is (pc), the call, the locals s (the
\* *Point read from State), pt (x2, y2 of sum) and x (the digits of s.X),
\* and what the call returned (the error, or the checksum)
AccThread(c) ==
    [pc |-> "call", call |-> c, s |-> ZeroPointAddress, pt |-> 0, x |-> 0,
     out |-> << >>]

\* how many times calls were handed out
Round ==
    IF "round" \in DOMAIN inflight THEN inflight.round ELSE 0

\* no call is in flight
Returned ==
    \A p \in Threads : inflight.th[p].pc \in {"idle", "returned"}

\* goroutine p goes on as t
Steps(p, t) ==
    /\ inflight' = [inflight EXCEPT !.th[p] = t]
    /\ UNCHANGED <<ledger, op, ret>>

\* every goroutine is handed its call
Go ==
    /\ Returned
    /\ Round < MaxRounds
    /\ \E calls \in [Threads -> AccCalls] :
          inflight' = [start |-> AccDb, round |-> Round + 1,
                       th |-> [p \in Threads |-> AccThread(calls[p])]]
    /\ UNCHANGED <<ledger, op, ret, accumulator>>

\* Lock() that does not wait for the lock to be free
LockAcquireAnyway(p) ==
    LET t == inflight.th[p]
    IN  /\ t.pc = "call"
        /\ Lock' = p
        /\ Steps(p, [t EXCEPT !.pc = "locked"])
        /\ UNCHANGED <<Data, State, Heap>>

\* db.Lock.Lock(): goes on when no goroutine holds the lock
LockAcquire(p) ==
    LET t == inflight.th[p]
    IN  /\ t.pc = "call"
        /\ Lock = Unlocked
        /\ Lock' = p
        /\ Steps(p, [t EXCEPT !.pc = "locked"])
        /\ UNCHANGED <<Data, State, Heap>>

\* Insert and Remove: the two map initialisations and the tests that return
\* an error.  Checksum: s, ok := db.State[shard]
LockLookup(p) ==
    LET t == inflight.th[p]
        c == t.call
        d == Touch(AccDb, c.v.Shard)
        held == c.v.Id \in DOMAIN d.Data[c.v.Shard]
    IN  /\ t.pc = "locked"
        /\ IF c.name = "Checksum"
           THEN /\ UNCHANGED <<Data, State>>
                /\ IF c.v.Shard \in DOMAIN State
                   THEN Steps(p, [t EXCEPT !.s = State[c.v.Shard], !.pc = "readX"])
                   ELSE Steps(p, [t EXCEPT !.out = << >>, !.pc = "unlock"])
           ELSE /\ Data' = d.Data
                /\ State' = d.State
                /\ IF c.name = "Insert"
                   THEN IF held
                        THEN Steps(p, [t EXCEPT !.out = <<"exists">>, !.pc = "unlock"])
                        ELSE Steps(p, [t EXCEPT !.pc = "sum"])
                   ELSE IF ~held
                        THEN Steps(p, [t EXCEPT !.out = <<"notexist">>, !.pc = "unlock"])
                        ELSE IF Digest(c.v) # Digest(d.Data[c.v.Shard][c.v.Id])
                        THEN Steps(p, [t EXCEPT !.out = <<"mismatch">>, !.pc = "unlock"])
                        ELSE Steps(p, [t EXCEPT !.pc = "sum"])
        /\ UNCHANGED <<Heap, Lock>>

\* what Curve.Add gives for the Point of cell c and the point q: their sum,
\* or any point when X and Y of the cell are not those of one point
AddOutcomes(c, q) ==
    IF Whole(c) THEN {CurveAdd(c, q)} ELSE 0 .. GroupOrder - 1

\* sum: p := db.State[shard]; x2, y2 := db.Curve.Add(p.X, p.Y, x1, y1)
LockSum(p) ==
    LET t == inflight.th[p]
        c == t.call
        p1 == ScalarBaseMult(Digest(c.v))
        q == IF c.name = "Remove" THEN Negated(p1) ELSE p1
    IN  /\ t.pc = "sum"
        /\ c.v.Shard \in DOMAIN State
        /\ \E r \in AddOutcomes(Heap[State[c.v.Shard]], q) :
              Steps(p, [t EXCEPT !.s = State[c.v.Shard], !.pt = r, !.pc = "writeX"])
        /\ UNCHANGED accumulator

\* sum: p.X = x2
LockWriteX(p) ==
    LET t == inflight.th[p]
    IN  /\ t.pc = "writeX"
        /\ Heap' = [Heap EXCEPT ![t.s] = Mixed(t.pt, YOf(@))]
        /\ Steps(p, [t EXCEPT !.pc = "writeY"])
        /\ UNCHANGED <<Data, State, Lock>>

\* sum: p.Y = y2; db.State[shard] = p
LockWriteY(p) ==
    LET t == inflight.th[p]
    IN  /\ t.pc = "writeY"
        /\ Heap' = [Heap EXCEPT ![t.s] = Mixed(XOf(@), t.pt)]
        /\ State' = (t.call.v.Shard :> t.s) @@ State
        /\ Steps(p, [t EXCEPT !.pc = "store"])
        /\ UNCHANGED <<Data, Lock>>

\* Insert: db.Data[shard][id] = v, which panics when the map of the shard
\* is gone.  Remove: the two deletes
LockStore(p) ==
    LET t == inflight.th[p]
        v == t.call.v
        less == [Data EXCEPT ![v.Shard] = MapDelete(@, v.Id)]
    IN  /\ t.pc = "store"
        /\ IF v.Shard \notin DOMAIN Data
           THEN /\ UNCHANGED Data
                /\ Steps(p, [t EXCEPT !.out = IF t.call.name = "Insert"
                                                 THEN <<"panic">> ELSE <<"nil">>,
                                      !.pc = "unlock"])
           ELSE /\ Data' = IF t.call.name = "Insert"
                           THEN [Data EXCEPT ![v.Shard] = (v.Id :> v) @@ @]
                           ELSE IF DOMAIN less[v.Shard] = {}
                                THEN MapDelete(less, v.Shard)
                                ELSE less
                /\ Steps(p, [t EXCEPT !.out = <<"nil">>, !.pc = "unlock"])
        /\ UNCHANGED <<State, Heap, Lock>>

\* Checksum: hex.EncodeToString(s.X.Bytes())
LockReadX(p) ==
    LET t == inflight.th[p]
    IN  /\ t.pc = "readX"
        /\ Steps(p, [t EXCEPT !.x = XOf(Heap[t.s]), !.pc = "readY"])
        /\ UNCHANGED accumulator

\* Checksum: hex.EncodeToString(s.Y.Bytes()), and the string is made
LockReadY(p) ==
    LET t == inflight.th[p]
    IN  /\ t.pc = "readY"
        /\ Steps(p, [t EXCEPT !.out = PointString(Mixed(t.x, YOf(Heap[t.s]))),
                              !.pc = "unlock"])
        /\ UNCHANGED accumulator

\* the deferred db.Lock.Unlock(), and the call returns
LockRelease(p) ==
    LET t == inflight.th[p]
    IN  /\ t.pc = "unlock"
        /\ Lock' = Unlocked
        /\ Steps(p, [t EXCEPT !.pc = "returned"])
        /\ UNCHANGED <<Data, State, Heap>>

NextLock ==
    \/ Go
    \/ \E p \in Threads : LockAcquire(p)
    \/ \E p \in Threads : LockLookup(p)
    \/ \E p \in Threads : LockSum(p)
    \/ \E p \in Threads : LockWriteX(p)
    \/ \E p \in Threads : LockWriteY(p)
    \/ \E p \in Threads : LockStore(p)
    \/ \E p \in Threads : LockReadX(p)
    \/ \E p \in Threads : LockReadY(p)
    \/ \E p \in Threads : LockRelease(p)

SpecLock ==
    Init /\ [][NextLock]_vars

\* what call c gives when it is made on db with no other call in flight
CallAlone(db, c) ==
    IF c.name = "Insert"
    THEN [db |-> InsertOp(db, c.v).db, out |-> <<InsertOp(db, c.v).ret>>]
    ELSE IF c.name = "Remove"
    THEN [db |-> RemoveOp(db, c.v).db, out |-> <<RemoveOp(db, c.v).ret>>]
    ELSE [db |-> db, out |-> ChecksumOp(db, c.v.Shard)]

RECURSIVE CallsInOrder(_, _, _, _)
\* the accumulator and what each call gave after the calls in flight are
\* made from db one after the other in order o, from the k-th on
CallsInOrder(db, outs, o, k) ==
    IF k > NumThreads THEN [db |-> db, outs |-> outs]
    ELSE LET r == CallAlone(db, inflight.th[o[k]].call)
         IN  CallsInOrder(r.db, [outs EXCEPT ![o[k]] = r.out], o, k + 1)

\* a goroutine between Lock() and Unlock()
InCall(p) ==
    inflight.th[p].pc \in {"locked", "sum", "writeX", "writeY", "store",
                           "readX", "readY", "unlock"}

\* every goroutine in a call holds the lock
UnderLock ==
    \A p \in Threads :
        (inflight.th[p].pc # "idle" /\ InCall(p)) => Lock = p

\* the Point a Checksum reads, and the string it gives, have the X and the Y
\* of one point
ChecksumSeesWholePoint ==
    \A p \in Threads :
        LET t == inflight.th[p]
        IN  (t.pc # "idle" /\ t.call.name = "Checksum") =>
                /\ t.pc \in {"readX", "readY"} => Whole(Heap[t.s])
                /\ \A i \in 1 .. Len(t.out) : Whole(t.out[i])

\* when all calls have returned, the accumulator and what every call gave
\* are those of the calls made one after the other in some order
AsInSomeOrder ==
    (Round > 0 /\ Returned) =>
        \E o \in Orders :
            LET r == CallsInOrder(inflight.start, [p \in Threads |-> << >>], o, 1)
            IN  /\ r.db = AccDb
                /\ \A p \in Threads : r.outs[p] = inflight.th[p].out

\* C39: Insert, Remove and Checksum called at once on one Db each run
\* between Lock() and Unlock() with the lock held; when they have returned,
\* the records, the points and what each call gave are those of the calls
\* made one after the other in some order; and a Checksum never reads or
\* gives a point whose X and Y come from different updates
C39_CallsAreAtomic ==
    /\ UnderLock
    /\ ChecksumSeesWholePoint
    /\ AsInSomeOrder

\* C39 happens: in the second round, on a shard that held a record, an
\* Insert and a Checksum of that shard were in flight together; the Insert
\* was stored and the Checksum gave the point from before it
C39_Witness ==
    /\ Round = 2
    /\ Returned
    /\ Lock = Unlocked
    /\ inflight.th[1].call.name = "Insert"
    /\ inflight.th[1].out = <<"nil">>
    /\ inflight.th[2].call.name = "Checksum"
    /\ inflight.th[2].call.v.Shard = inflight.th[1].call.v.Shard
    /\ inflight.th[2].out = ChecksumOp(inflight.start, inflight.th[2].call.v.Shard)
    /\ Len(inflight.th[2].out) = 1
    /\ inflight.th[2].out # ChecksumOp(AccDb, inflight.th[2].call.v.Shard)


\* ------------------------------------------- the queue of transactions
\* A sixth specification: clients queue transactions with InsertTransaction
\* and walk the queue with the iterator IterateTransactions returns.  Index
\* is a Go index, from 0.
MaxQueue == 4

\* the transactions clients queue
QueueTxns ==
    { SignEach(Unsigned(f, 0), 1, 0, FALSE) :
         f \in { <<Flow(0 - Half, Treasury), Flow(Half, Customer)>>,
                 <<Flow(0 - 1, Customer), Flow(1, Treasury)>>,
                 <<Flow(0 - Half, Customer), Flow(Half, Treasury)>> } }

\* TransactionIteratorImpl.HasNext
HasNext(txns, i) ==
    i + 1 < Len(txns)

\* TransactionIteratorImpl.Next: the Index afterwards; Transactions[Index]
\* is out of range when the queue is not longer than Index
TransactionIteratorNext(txns, i) ==
    IF i >= Len(txns) THEN [Index |-> i, ret |-> "panic"]
    ELSE IF HasNext(txns, i) THEN [Index |-> i + 1, ret |-> "nil"]
    ELSE [Index |-> i, ret |-> "nil"]

\* TransactionIteratorImpl.Remove: head is Transactions[0:Index], tail is
\* Transactions[:Index+1], and the queue becomes append(head, tail...), which
\* holds the values head and tail had before the call.  Transactions[:Index+1]
\* is out of range on a queue that never held a transaction
TransactionIteratorRemove(txns, i) ==
    IF i + 1 > Len(txns) THEN [Transactions |-> txns, ret |-> "panic"]
    ELSE [Transactions |-> SubSeq(txns, 1, i) \o SubSeq(txns, 1, i + 1),
          ret |-> "nil"]

\* the next state holds queue txns and iterator Index i, after call o
\* returned r
QueueBecomes(txns, i, o, r) ==
    /\ Transactions' = txns
    /\ Index' = i
    /\ op' = o
    /\ ret' = r
    /\ UNCHANGED <<Accounts, Receipts, NextReceipts, HighestReceiptHashPointers,
                   Genesis, This, IsBank, inflight, accumulator>>

\* Stored.InsertTransaction
InsertTransaction ==
    /\ Running
    /\ Len(Transactions) < MaxQueue
    /\ \E txn \in QueueTxns :
          QueueBecomes(Append(Transactions, txn), Index, "InsertTransaction", "nil")

\* Stored.IterateTransactions: a new iterator, at Index 0
IterateTransactions ==
    /\ Running
    /\ QueueBecomes(Transactions, 0, "IterateTransactions", "nil")

\* it.Next()
IteratorNext ==
    /\ Running
    /\ LET r == TransactionIteratorNext(Transactions, Index)
       IN  QueueBecomes(Transactions, r.Index, "Next", r.ret)

\* it.Remove()
IteratorRemove ==
    /\ Running
    /\ LET r == TransactionIteratorRemove(Transactions, Index)
       IN  /\ Len(r.Transactions) <= MaxQueue
           /\ QueueBecomes(r.Transactions, Index, "Remove", r.ret)

NextQueue ==
    \/ InsertTransaction
    \/ IterateTransactions
    \/ IteratorNext
    \/ IteratorRemove

SpecQueue ==
    Init /\ [][NextQueue]_vars

\* q without its element at Go index i
WithoutIndex(q, i) ==
    SubSeq(q, 1, i) \o SubSeq(q, i + 2, Len(q))

\* C40: a Remove() that returns leaves the queue one element shorter, without
\* the transaction that was at the iterator's Index, and with all the others
\* in the order they had
C40_RemoveDeletesCurrent ==
    [][(op' = "Remove" /\ ret' = "nil") =>
           /\ Len(Transactions') = Len(Transactions) - 1
           /\ Transactions' = WithoutIndex(Transactions, Index)]_vars

\* the part of C40 that holds of the code: a Remove() that returns leaves the
\* transactions before Index where they were
C40_RemoveKeepsHead ==
    [][(op' = "Remove" /\ ret' = "nil") =>
           SubSeq(Transactions', 1, Index) = SubSeq(Transactions, 1, Index)]_vars

=============================================================================
